---- MODULE Spec2Model ----
(***************************************************************************)
(* DocMeta: the usedby builder (bin/usedby.js), the path-alias resolver    *)
(* (bin/lib/config.js), the graph analyzer (bin/graph.js) and the record   *)
(* writers of bin/update.js and bin/calls.js.                              *)
(*                                                                         *)
(* A JavaScript string is a sequence of one-character strings, so that     *)
(* startsWith / endsWith / includes / slice / the extension regex act on   *)
(* characters exactly as in the code.                                      *)
(***************************************************************************)
EXTENDS Naturals, Integers, Sequences, FiniteSets, TLC

VARIABLES
  docMetas,      \* the .docmeta.json records on disk, in the order they are found
  loaded,        \* the records the last command loaded, as it read them
  op,            \* the command that ran last
  status,        \* how it ended: "ok", or "threw" for an uncaught exception
  written,       \* folder paths of the records the last usedby run wrote, in order
  unresolved,    \* the unresolved map of the last usedby run
  linksCreated,  \* its linksCreated counter
  analysis,      \* what the last graph run computed
  target,        \* the --blast-radius argument of the last graph run
  blast,         \* the result of calculateBlastRadius in that run
  edits,         \* how many update or calls commands have run
  request,       \* the arguments of the last resolvePathAlias call
  resolution,    \* what that call returned
  fault,         \* what went wrong while the last usedby run wrote the records
  walk           \* the loops and call stack of a traversal watched step by step

vars == <<docMetas, loaded, op, status, written, unresolved, linksCreated, analysis, target, blast,
          edits, request, resolution, fault, walk>>

-----------------------------------------------------------------------------
(* String primitives                                                       *)

\* the characters of the model in UTF-16 code-unit order
CodeOrder ==
  <<".", "/", "@", "a", "b", "c", "d", "e", "f", "g", "h", "i", "j", "k", "l",
    "m", "n", "o", "p", "q", "r", "s", "t", "u", "v", "w", "x", "y", "z", "~">>

Code(ch) == CHOOSE i \in 1..Len(CodeOrder) : CodeOrder[i] = ch

StartsWith(s, p) == Len(p) <= Len(s) /\ SubSeq(s, 1, Len(p)) = p

EndsWith(s, p) == Len(p) <= Len(s) /\ SubSeq(s, Len(s) - Len(p) + 1, Len(s)) = p

Includes(s, p) == \E i \in 0..(Len(s) - Len(p)) : SubSeq(s, i + 1, i + Len(p)) = p

\* s.slice(n)
SliceFrom(s, n) == SubSeq(s, n + 1, Len(s))

\* s.slice(0, -n)
DropLast(s, n) == SubSeq(s, 1, Len(s) - n)

\* a < b on strings (code-unit order), as Array.prototype.sort() compares
RECURSIVE StrLess(_, _)
StrLess(a, b) ==
  IF b = <<>> THEN FALSE
  ELSE IF a = <<>> THEN TRUE
  ELSE IF Head(a) = Head(b) THEN StrLess(Tail(a), Tail(b))
  ELSE Code(Head(a)) < Code(Head(b))

\* list.includes(x)
Has(list, x) == \E i \in 1..Len(list) : list[i] = x

\* list.indexOf(x), 1-based; 0 when absent
IndexOf(list, x) ==
  IF Has(list, x) THEN CHOOSE i \in 1..Len(list) :
                         list[i] = x /\ \A j \in 1..(i - 1) : list[j] # x
  ELSE 0

RECURSIVE InsertSorted(_, _)
InsertSorted(sorted, x) ==
  IF sorted = <<>> THEN <<x>>
  ELSE IF StrLess(x, Head(sorted)) THEN <<x>> \o sorted
  ELSE <<Head(sorted)>> \o InsertSorted(Tail(sorted), x)

\* list.sort() on strings; the sort is stable and equal strings are identical
RECURSIVE SortStrings(_)
SortStrings(list) ==
  IF list = <<>> THEN <<>>
  ELSE InsertSorted(SortStrings(DropLast(list, 1)), list[Len(list)])

-----------------------------------------------------------------------------
(* path.posix                                                              *)

\* s.split('/')
RECURSIVE SplitSlash(_)
SplitSlash(s) ==
  IF ~Has(s, "/") THEN <<s>>
  ELSE LET i == IndexOf(s, "/")
       IN  <<SubSeq(s, 1, i - 1)>> \o SplitSlash(SliceFrom(s, i))

\* segs.join('/')
RECURSIVE JoinSlash(_)
JoinSlash(segs) ==
  IF segs = <<>> THEN <<>>
  ELSE IF Len(segs) = 1 THEN segs[1]
  ELSE segs[1] \o <<"/">> \o JoinSlash(Tail(segs))

\* normalizeString: drops '' and '.', resolves '..'
RECURSIVE NormalizeSegs(_, _, _)
NormalizeSegs(segs, acc, allowAboveRoot) ==
  IF segs = <<>> THEN acc
  ELSE LET sg == Head(segs)
           rest == Tail(segs)
       IN  IF sg = <<>> \/ sg = <<".">>
             THEN NormalizeSegs(rest, acc, allowAboveRoot)
           ELSE IF sg = <<".", ".">>
             THEN IF acc # <<>> /\ acc[Len(acc)] # <<".", ".">>
                    THEN NormalizeSegs(rest, DropLast(acc, 1), allowAboveRoot)
                  ELSE IF allowAboveRoot
                    THEN NormalizeSegs(rest, Append(acc, sg), allowAboveRoot)
                  ELSE NormalizeSegs(rest, acc, allowAboveRoot)
           ELSE NormalizeSegs(rest, Append(acc, sg), allowAboveRoot)

\* a normalize that lets '..' climb above the root of an absolute path
PosixNormalizeAboveRoot(p) ==
  IF p = <<>> THEN <<".">>
  ELSE LET body == JoinSlash(NormalizeSegs(SplitSlash(p), <<>>, TRUE))
       IN  IF Head(p) = "/" THEN <<"/">> \o body ELSE body

\* path.posix.normalize
PosixNormalize(p) ==
  IF p = <<>> THEN <<".">>
  ELSE LET isAbsolute == Head(p) = "/"
           trailing == p[Len(p)] = "/"
           body == JoinSlash(NormalizeSegs(SplitSlash(p), <<>>, ~isAbsolute))
       IN  IF body = <<>>
             THEN IF isAbsolute THEN <<"/">>
                  ELSE IF trailing THEN <<".", "/">> ELSE <<".">>
           ELSE LET withTrail == IF trailing THEN body \o <<"/">> ELSE body
                IN  IF isAbsolute THEN <<"/">> \o withTrail ELSE withTrail

\* path.posix.join(a, b)
PosixJoin(a, b) ==
  IF a = <<>> /\ b = <<>> THEN <<".">>
  ELSE IF a = <<>> THEN PosixNormalize(b)
  ELSE IF b = <<>> THEN PosixNormalize(a)
  ELSE PosixNormalize(a \o <<"/">> \o b)

-----------------------------------------------------------------------------
(* lib/config.js: path aliases                                             *)

\* the value null
Null == <<"null">>

\* !x for a string-or-null x
Falsy(x) == x = Null \/ x = <<>>

\* the alias table loadPathAliases returns when no tsconfig/jsconfig adds paths
DefaultAliases ==
  << [pattern |-> <<"@", "/", "*">>, targets |-> << <<"/", "*">> >>],
     [pattern |-> <<"~", "/", "*">>, targets |-> << <<"/", "*">> >>] >>

\* target.endsWith('/*') ? target.slice(0, -2) : target
TargetBase(tgt) == IF EndsWith(tgt, <<"/", "*">>) THEN DropLast(tgt, 2) ELSE tgt

\* a scan in which a later matching entry overrides an earlier one
RECURSIVE ScanAliasesLastMatch(_, _)
ScanAliasesLastMatch(importPath, aliases) ==
  IF aliases = <<>> THEN Null
  ELSE LET later == ScanAliasesLastMatch(importPath, Tail(aliases))
           pattern == Head(aliases).pattern
           targets == Head(aliases).targets
           isWildcard == EndsWith(pattern, <<"/", "*">>)
           patternBase == IF isWildcard THEN DropLast(pattern, 2) ELSE pattern
       IN  IF later # Null THEN later
           ELSE IF isWildcard /\ StartsWith(importPath, patternBase \o <<"/">>)
             THEN TargetBase(targets[1]) \o <<"/">>
                    \o SliceFrom(importPath, Len(patternBase) + 1)
           ELSE IF ~isWildcard /\ importPath = patternBase
             THEN TargetBase(targets[1])
           ELSE Null

\* the loop over Object.entries(aliases): the first matching entry returns
RECURSIVE ScanAliases(_, _)
ScanAliases(importPath, aliases) ==
  IF aliases = <<>> THEN Null
  ELSE LET pattern == Head(aliases).pattern
           targets == Head(aliases).targets
           isWildcard == EndsWith(pattern, <<"/", "*">>)
           patternBase == IF isWildcard THEN DropLast(pattern, 2) ELSE pattern
       IN  IF isWildcard
             THEN IF StartsWith(importPath, patternBase \o <<"/">>)
                    THEN TargetBase(targets[1]) \o <<"/">>
                           \o SliceFrom(importPath, Len(patternBase) + 1)
                  ELSE ScanAliases(importPath, Tail(aliases))
           ELSE IF importPath = patternBase
             THEN TargetBase(targets[1])
           ELSE ScanAliases(importPath, Tail(aliases))

\* how many leading segments two segment lists share
RECURSIVE CommonPrefix(_, _)
CommonPrefix(a, b) ==
  IF a = <<>> \/ b = <<>> \/ Head(a) # Head(b) THEN 0
  ELSE 1 + CommonPrefix(Tail(a), Tail(b))

\* path.relative(from, to) for two absolute paths, with '/' separators
PosixRelative(from, to) ==
  LET fs == NormalizeSegs(SplitSlash(from), <<>>, FALSE)
      ts == NormalizeSegs(SplitSlash(to), <<>>, FALSE)
      n == CommonPrefix(fs, ts)
  IN  JoinSlash([i \in 1..(Len(fs) - n) |-> <<".", ".">>] \o SubSeq(ts, n + 1, Len(ts)))

\* '/' + path.relative(rootPath, fromDir).replace(/\\/g, '/')
FromRelative(rootPath, fromDir) == <<"/">> \o PosixRelative(rootPath, fromDir)

\* no call made yet
NoRequest == [none |-> TRUE]

Pending == <<"pending">>

\* resolvePathAlias; fromRelative is '/' + path.relative(rootPath, fromDir)
resolvePathAlias(importPath, aliases, fromRelative) ==
  IF StartsWith(importPath, <<".">>)
    THEN PosixNormalize(PosixJoin(fromRelative, importPath))
  ELSE ScanAliases(importPath, aliases)

-----------------------------------------------------------------------------
(* usedby.js                                                               *)

LookupExts ==
  << <<"t", "s">>, <<"t", "s", "x">>, <<"j", "s">>, <<"j", "s", "x">>,
     <<"m", "j", "s">>, <<"c", "j", "s">>, <<"p", "y">>, <<"g", "o">>,
     <<"r", "s">> >>

IndexExts ==
  << <<"t", "s">>, <<"t", "s", "x">>, <<"j", "s">>, <<"j", "s", "x">>,
     <<"m", "j", "s">>, <<"p", "y">> >>

\* p.replace(/\.(ts|tsx|js|jsx|mjs|cjs|py|go|rs)$/, '')
normalizeForLookup(p) ==
  IF \E i \in 1..Len(LookupExts) : EndsWith(p, <<".">> \o LookupExts[i])
    THEN LET i == CHOOSE k \in 1..Len(LookupExts) : EndsWith(p, <<".">> \o LookupExts[k])
         IN  DropLast(p, Len(LookupExts[i]) + 1)
  ELSE p

\* /^index\.(ts|tsx|js|jsx|mjs|py)$/.test(fileName)
IsIndexFile(fileName) ==
  \E i \in 1..Len(IndexExts) : fileName = <<"i", "n", "d", "e", "x", ".">> \o IndexExts[i]

\* resolveImportPath
resolveImportPath(importPath, folderPath, aliases) ==
  resolvePathAlias(importPath, aliases, folderPath)

\* thisFilePath / filePath of file fi of record di
FilePath(docs, di, fi) == PosixJoin(docs[di].folderPath, docs[di].files[fi].name)

\* Map.set
MapSet(map, key, val) == (key :> val) @@ map

\* Map.get, undefined as Null
MapGet(map, key) == IF key \in DOMAIN map THEN map[key] ELSE Null

EmptyMap == [k \in {} |-> Null]

\* the fileIndex.set calls made for one file (step 1, inner loop body)
IndexFile(fileIndex, docs, di, fi) ==
  LET fileName == docs[di].files[fi].name
      entry == <<di, fi>>
      normalized == normalizeForLookup(FilePath(docs, di, fi))
      m1 == MapSet(fileIndex, normalized, entry)
      m2 == IF StartsWith(normalized, <<"/">>)
              THEN MapSet(m1, SliceFrom(normalized, 1), entry) ELSE m1
      nf == normalizeForLookup(docs[di].folderPath)
  IN  IF IsIndexFile(fileName)
        THEN MapSet(MapSet(m2, nf, entry), SliceFrom(nf, 1), entry)
      ELSE m2

\* the positions <<di, fi>> of all files, in load order then key order
RECURSIVE FilePositions(_, _, _)
FilePositions(docs, di, fi) ==
  IF di > Len(docs) THEN <<>>
  ELSE IF fi > Len(docs[di].files) THEN FilePositions(docs, di + 1, 1)
  ELSE << <<di, fi>> >> \o FilePositions(docs, di, fi + 1)

\* step 1: the file index over all loaded records
RECURSIVE BuildFileIndex(_, _, _)
BuildFileIndex(docs, positions, fileIndex) ==
  IF positions = <<>> THEN fileIndex
  ELSE BuildFileIndex(docs, Tail(positions),
                      IndexFile(fileIndex, docs, Head(positions)[1], Head(positions)[2]))

\* a step 2 that kept the previous list, so that step 3 merges into it
KeptUsedBy(old) == old

\* the value step 2 stores in every usedBy
ClearedUsedBy(old) == <<>>

\* a step 2 that emptied calledBy along with usedBy
ClearAllUsedByAndCalledBy(docs) ==
  [di \in 1..Len(docs) |->
     [docs[di] EXCEPT !.files =
        [fi \in 1..Len(docs[di].files) |->
           [docs[di].files[fi] EXCEPT !.usedBy = <<>>, !.calledBy = <<>>]]]]

\* step 2: clear all usedBy arrays
ClearAllUsedBy(docs) ==
  [di \in 1..Len(docs) |->
     [docs[di] EXCEPT !.files =
        [fi \in 1..Len(docs[di].files) |->
           [docs[di].files[fi] EXCEPT !.usedBy = ClearedUsedBy(@)]]]]

\* fileIndex.get(normalized) || fileIndex.get(normalized.slice(1)) || fileIndex.get(normalized.replace(/^\//, ''))
LookupTarget(fileIndex, normalized) ==
  LET t1 == MapGet(fileIndex, normalized)
      t2 == MapGet(fileIndex, SliceFrom(normalized, 1))
      t3 == MapGet(fileIndex, IF StartsWith(normalized, <<"/">>)
                                THEN SliceFrom(normalized, 1) ELSE normalized)
  IN  IF t1 # Null THEN t1 ELSE IF t2 # Null THEN t2 ELSE t3

\* the index entry a reference of a file in folderPath lands on, or Null
ResolveToEntry(fileIndex, usePath, folderPath, aliases) ==
  LET resolved == resolveImportPath(usePath, folderPath, aliases)
  IN  IF Falsy(resolved) THEN Null
      ELSE LookupTarget(fileIndex, normalizeForLookup(resolved))

\* unresolved.has(key)
UnresolvedHas(unres, key) == \E i \in 1..Len(unres) : unres[i].key = key

\* unresolved.get(key).push(src); pushing onto undefined (key absent) is a
\* TypeError
PushSource(unres, key, src) ==
  IF UnresolvedHas(unres, key)
    THEN [threw |-> FALSE,
          map |-> [i \in 1..Len(unres) |->
                     IF unres[i].key = key THEN [unres[i] EXCEPT !.sources = Append(@, src)]
                     ELSE unres[i]]]
  ELSE [threw |-> TRUE, map |-> unres]

\* the push alone, without first creating the list of an unseen reference
TrackWithoutCreating(unres, usePath, thisFilePath) ==
  PushSource(unres, usePath, thisFilePath)

\* if (!unresolved.has(usePath)) unresolved.set(usePath, []); then the push
TrackUnresolved(unres, usePath, thisFilePath) ==
  PushSource(IF ~UnresolvedHas(unres, usePath)
               THEN Append(unres, [key |-> usePath, sources |-> <<>>])
             ELSE unres,
             usePath, thisFilePath)

\* a loop body that pushes without looking the path up in the list first
UseStepAlwaysPushing(st, fileIndex, di, fi, usePath, aliases) ==
  LET thisFilePath == FilePath(st.docs, di, fi)
      resolved == resolveImportPath(usePath, st.docs[di].folderPath, aliases)
      tgt == LookupTarget(fileIndex, normalizeForLookup(resolved))
  IN  IF Falsy(resolved) THEN st
      ELSE IF tgt # Null
        THEN [st EXCEPT !.docs[tgt[1]].files[tgt[2]].usedBy = Append(@, thisFilePath),
                        !.linksCreated = @ + 1]
      ELSE LET tracked == TrackUnresolved(st.unresolved, usePath, thisFilePath)
           IN  IF tracked.threw THEN [st EXCEPT !.threw = TRUE]
               ELSE [st EXCEPT !.unresolved = tracked.map]

\* step 3, body of the loop over one file's uses, for one usePath
UseStep(st, fileIndex, di, fi, usePath, aliases) ==
  LET thisFilePath == FilePath(st.docs, di, fi)
      resolved == resolveImportPath(usePath, st.docs[di].folderPath, aliases)
      tgt == LookupTarget(fileIndex, normalizeForLookup(resolved))
  IN  IF Falsy(resolved) THEN st
      ELSE IF tgt # Null
        THEN IF ~Has(st.docs[tgt[1]].files[tgt[2]].usedBy, thisFilePath)
               THEN [st EXCEPT !.docs[tgt[1]].files[tgt[2]].usedBy = Append(@, thisFilePath),
                               !.linksCreated = @ + 1]
             ELSE st
      ELSE LET tracked == TrackUnresolved(st.unresolved, usePath, thisFilePath)
           IN  IF tracked.threw THEN [st EXCEPT !.threw = TRUE]
               ELSE [st EXCEPT !.unresolved = tracked.map]

\* the same loop body, given what the first lines of it computed: thisFilePath,
\* whether resolved is falsy, and the index entry found (Null: none)
UseStepFrom(st, usePath, found) ==
  IF found.falsy THEN st
  ELSE IF found.tgt # Null
    THEN IF ~Has(st.docs[found.tgt[1]].files[found.tgt[2]].usedBy, found.thisFilePath)
           THEN [st EXCEPT !.docs[found.tgt[1]].files[found.tgt[2]].usedBy =
                              Append(@, found.thisFilePath),
                           !.linksCreated = @ + 1]
         ELSE st
  ELSE LET tracked == TrackUnresolved(st.unresolved, usePath, found.thisFilePath)
       IN  IF tracked.threw THEN [st EXCEPT !.threw = TRUE]
           ELSE [st EXCEPT !.unresolved = tracked.map]

\* thisFilePath, resolved and target of every reference: none of them depends
\* on what the loop has done so far
Lookups(docs, fileIndex, aliases) ==
  [c \in UNION { UNION { {<<di, fi, ui>> : ui \in 1..Len(docs[di].files[fi].uses)} :
                           fi \in 1..Len(docs[di].files) } :
                   di \in 1..Len(docs) } |->
     [thisFilePath |-> FilePath(docs, c[1], c[2]),
      falsy |-> Falsy(resolveImportPath(docs[c[1]].files[c[2]].uses[c[3]],
                                        docs[c[1]].folderPath, aliases)),
      tgt |-> ResolveToEntry(fileIndex, docs[c[1]].files[c[2]].uses[c[3]],
                             docs[c[1]].folderPath, aliases)]]

\* step 3: all records, all files, all uses, in order
RECURSIVE Populate(_, _, _, _, _, _)
Populate(st, fileIndex, di, fi, ui, aliases) ==
  IF st.threw \/ di > Len(st.docs) THEN st
  ELSE IF fi > Len(st.docs[di].files) THEN Populate(st, fileIndex, di + 1, 1, 1, aliases)
  ELSE IF ui > Len(st.docs[di].files[fi].uses) THEN Populate(st, fileIndex, di, fi + 1, 1, aliases)
  ELSE Populate(UseStep(st, fileIndex, di, fi, st.docs[di].files[fi].uses[ui], aliases),
                fileIndex, di, fi, ui + 1, aliases)

\* step 4: sort usedBy arrays
SortAllUsedBy(docs) ==
  [di \in 1..Len(docs) |->
     [docs[di] EXCEPT !.files =
        [fi \in 1..Len(docs[di].files) |->
           [docs[di].files[fi] EXCEPT !.usedBy = SortStrings(@)]]]]

\* the timestamp of a record written before the commands modelled here ran, and
\* the one new Date().toISOString() yields while they run
Earlier == "earlier"
Now == "now"

\* a step 5 that wrote every entry with an empty uses list
WriteBackWithoutUses(docs) ==
  [di \in 1..Len(docs) |->
     [docs[di] EXCEPT !.files =
        [fi \in 1..Len(docs[di].files) |->
           [docs[di].files[fi] EXCEPT !.uses = <<>>]]]]

\* step 5: the content written to each record file (JSON.stringify of it),
\* with content.updated set to the current time
WriteBack(docs) == [di \in 1..Len(docs) |-> [docs[di] EXCEPT !.updated = Now]]

\* main, steps 1-5: the records on disk afterwards, linksCreated, the unresolved
\* map, and the records written; an exception in step 3 ends the run before step 5
RunUsedBy(docs, aliases) ==
  LET fileIndex == BuildFileIndex(docs, FilePositions(docs, 1, 1), EmptyMap)
      cleared == ClearAllUsedBy(docs)
      st == Populate([docs |-> cleared, linksCreated |-> 0, unresolved |-> <<>>,
                      threw |-> FALSE],
                     fileIndex, 1, 1, 1, aliases)
  IN  IF st.threw
        THEN [docs |-> docs, linksCreated |-> st.linksCreated,
              unresolved |-> st.unresolved, written |-> <<>>, threw |-> TRUE]
      ELSE [docs |-> WriteBack(SortAllUsedBy(st.docs)),
            linksCreated |-> st.linksCreated,
            unresolved |-> st.unresolved,
            written |-> [di \in 1..Len(docs) |-> docs[di].folderPath],
            threw |-> FALSE]

-----------------------------------------------------------------------------
(* graph.js: entry point patterns                                          *)

\* regex tokens: a one-character string is that literal character
TokStar == "[^/]*"
TokGlobstarSlash == "(?:.*/)?"
TokGlobstar == ".*"

\* one pass of String.replace(/lit/g, tok) over a token sequence
RECURSIVE ReplaceAll(_, _, _)
ReplaceAll(toks, lit, tok) ==
  IF toks = <<>> THEN <<>>
  ELSE IF StartsWith(toks, lit) THEN <<tok>> \o ReplaceAll(SliceFrom(toks, Len(lit)), lit, tok)
  ELSE <<Head(toks)>> \o ReplaceAll(Tail(toks), lit, tok)

RegexExts == << <<".", "j", "s">>, <<".", "t", "s">>, <<".", "t", "s", "x">>, <<".", "j", "s", "x">> >>

\* globToRegex: the token sequence, and whether the regex ends with $
globToRegex(pattern) ==
  LET r1 == ReplaceAll(pattern, <<"*", "*", "/">>, TokGlobstarSlash)
      r2 == ReplaceAll(r1, <<"*", "*">>, TokGlobstar)
      r3 == ReplaceAll(r2, <<"*">>, TokStar)
      r4 == IF ~StartsWith(pattern, <<"*">>) THEN <<"/">> \o r3 ELSE r3
  IN  [toks |-> r4,
       anchorEnd |-> \E i \in 1..Len(RegexExts) : EndsWith(pattern, RegexExts[i])]

\* the regex tokens match a prefix of s (the whole of s when anchorEnd)
RECURSIVE MatchHere(_, _, _)
MatchHere(toks, s, anchorEnd) ==
  IF toks = <<>> THEN (~anchorEnd \/ s = <<>>)
  ELSE LET t == Head(toks)
           rest == Tail(toks)
       IN  IF t = TokStar
             THEN \E n \in 0..Len(s) :
                    /\ \A j \in 1..n : s[j] # "/"
                    /\ MatchHere(rest, SliceFrom(s, n), anchorEnd)
           ELSE IF t = TokGlobstar
             THEN \E n \in 0..Len(s) : MatchHere(rest, SliceFrom(s, n), anchorEnd)
           ELSE IF t = TokGlobstarSlash
             THEN \/ MatchHere(rest, s, anchorEnd)
                  \/ \E n \in 1..Len(s) :
                       s[n] = "/" /\ MatchHere(rest, SliceFrom(s, n), anchorEnd)
           ELSE s # <<>> /\ Head(s) = t /\ MatchHere(rest, Tail(s), anchorEnd)

\* RegExp.prototype.test: a match starting anywhere
RegexTest(re, s) == \E i \in 0..Len(s) : MatchHere(re.toks, SliceFrom(s, i), re.anchorEnd)

\* config.entryPointPatterns as set by the project's .docmetarc.json
EntryPointGlobs ==
  << <<"*", "*", "/", "m", "a", "i", "n", ".", "j", "s">>,
     <<"s", "r", "c", "/", "b", ".", "j", "s">> >>

\* buildEntryPointPatterns
buildEntryPointPatterns(globs) == [i \in 1..Len(globs) |-> globToRegex(globs[i])]

EntryPointPatterns == buildEntryPointPatterns(EntryPointGlobs)

\* entryPointPatterns.some(p => p.test(filePath))
SomePatternTests(patterns, filePath) ==
  \E i \in 1..Len(patterns) : RegexTest(patterns[i], filePath)

-----------------------------------------------------------------------------
(* graph.js: buildGraph                                                    *)

\* nodes.set(filePath, data): a Map keeps the position of an existing key
NodesSet(nodes, filePath, data) ==
  IF \E i \in 1..Len(nodes) : nodes[i].path = filePath
    THEN [i \in 1..Len(nodes) |->
            IF nodes[i].path = filePath THEN [path |-> filePath] @@ data ELSE nodes[i]]
  ELSE Append(nodes, [path |-> filePath] @@ data)

RECURSIVE LoadNodes(_, _, _)
LoadNodes(docs, positions, nodes) ==
  IF positions = <<>> THEN nodes
  ELSE LET di == Head(positions)[1]
           fi == Head(positions)[2]
           folderPath == docs[di].folderPath
           normalizedFolderPath == IF folderPath = <<"/">> THEN <<>> ELSE folderPath
           f == docs[di].files[fi]
       IN  LoadNodes(docs, Tail(positions),
                     NodesSet(nodes, normalizedFolderPath \o <<"/">> \o f.name,
                              [uses |-> f.uses, usedBy |-> f.usedBy, calledBy |-> f.calledBy]))

\* buildGraph: the node map in insertion order
buildGraph(docs) == LoadNodes(docs, FilePositions(docs, 1, 1), <<>>)

NodePaths(nodes) == {nodes[i].path : i \in 1..Len(nodes)}

\* nodes.get(path) for a path that is a key
NodeAt(nodes, p) == nodes[CHOOSE i \in 1..Len(nodes) : nodes[i].path = p]

-----------------------------------------------------------------------------
(* graph.js: findCycles                                                    *)

\* the first key of the node map that ends with or includes dep, or Null
FirstMatching(nodes, dep) ==
  IF \E i \in 1..Len(nodes) : EndsWith(nodes[i].path, dep) \/ Includes(nodes[i].path, dep)
    THEN nodes[CHOOSE i \in 1..Len(nodes) :
                 /\ EndsWith(nodes[i].path, dep) \/ Includes(nodes[i].path, dep)
                 /\ \A j \in 1..(i - 1) :
                      ~(EndsWith(nodes[j].path, dep) \/ Includes(nodes[j].path, dep))].path
  ELSE Null

\* index (1-based) of the first lexicographically smallest member of cycle.slice(0, -1)
RECURSIVE MinIdx(_, _, _)
MinIdx(arr, idx, min) ==
  IF idx > Len(arr) THEN min
  ELSE MinIdx(arr, idx + 1, IF StrLess(arr[idx], arr[min]) THEN idx ELSE min)

\* the cycle as extracted from the path, not rotated
NormalizeCycleUnrotated(cycle) == cycle

\* a rotation that does not repeat its first member at the end
NormalizeCycleOpen(cycle) ==
  LET minIdx == MinIdx(DropLast(cycle, 1), 1, 1)
  IN  SubSeq(cycle, minIdx, Len(cycle) - 1) \o SubSeq(cycle, 1, minIdx - 1)

\* cycle.slice(minIdx, -1).concat(cycle.slice(0, minIdx + 1))
NormalizeCycle(cycle) ==
  LET minIdx == MinIdx(DropLast(cycle, 1), 1, 1)
  IN  SubSeq(cycle, minIdx, Len(cycle) - 1) \o SubSeq(cycle, 1, minIdx)

\* the branch taken when the node is on the recursion stack
RecordCycle(st, node) ==
  LET cycleStart == IndexOf(st.path, node)
      cycle == Append(SubSeq(st.path, cycleStart, Len(st.path)), node)
      normalizedCycle == NormalizeCycle(cycle)
  IN  IF cycleStart # 0 /\ ~Has(st.cycles, normalizedCycle)
        THEN [st EXCEPT !.cycles = Append(@, normalizedCycle)]
      ELSE st

RECURSIVE dfsUses(_, _, _)
RECURSIVE DfsDeps(_, _, _, _)

\* the loop over nodeData.uses inside dfsUses
DfsDeps(nodes, deps, k, st) ==
  IF k > Len(deps) THEN st
  ELSE LET filePath == FirstMatching(nodes, deps[k])
       IN  DfsDeps(nodes, deps, k + 1,
                   IF filePath # Null THEN dfsUses(nodes, filePath, st) ELSE st)

dfsUses(nodes, node, st) ==
  IF node \in st.recursionStack THEN RecordCycle(st, node)
  ELSE IF node \in st.visited THEN st
  ELSE LET entered == [st EXCEPT !.visited = @ \cup {node},
                                 !.recursionStack = @ \cup {node},
                                 !.path = Append(@, node)]
           after == IF node \in NodePaths(nodes)
                      THEN DfsDeps(nodes, NodeAt(nodes, node).uses, 1, entered)
                    ELSE entered
       IN  [after EXCEPT !.path = DropLast(@, 1), !.recursionStack = @ \ {node}]

\* the loop "Run DFS from each node"
RECURSIVE CycleSweep(_, _, _)
CycleSweep(nodes, k, cycles) ==
  IF k > Len(nodes) THEN cycles
  ELSE CycleSweep(nodes, k + 1,
                  dfsUses(nodes, nodes[k].path,
                          [cycles |-> cycles, visited |-> {}, recursionStack |-> {},
                           path |-> <<>>]).cycles)

findCycles(nodes) == CycleSweep(nodes, 1, <<>>)

-----------------------------------------------------------------------------
(* graph.js: findOrphans, findEntryPoints                                  *)

\* data.uses.some(u => u.startsWith('.') || u.startsWith('@/') || u.startsWith('~/'))
HasInternalDeps(uses) ==
  \E i \in 1..Len(uses) :
     \/ StartsWith(uses[i], <<".">>)
     \/ StartsWith(uses[i], <<"@", "/">>)
     \/ StartsWith(uses[i], <<"~", "/">>)

\* a test that does not look at calledBy
IsOrphanIgnoringCallers(node, patterns) ==
  /\ Len(node.usedBy) = 0
  /\ ~SomePatternTests(patterns, node.path)
  /\ HasInternalDeps(node.uses)

\* the test findOrphans applies to one node
IsOrphan(node, patterns) ==
  /\ Len(node.usedBy) = 0
  /\ ~(Len(node.calledBy) > 0)
  /\ ~SomePatternTests(patterns, node.path)
  /\ HasInternalDeps(node.uses)

RECURSIVE SelectPaths(_, _)
SelectPaths(nodes, keep) ==
  IF nodes = <<>> THEN <<>>
  ELSE (IF Head(nodes).path \in keep THEN <<Head(nodes).path>> ELSE <<>>)
         \o SelectPaths(Tail(nodes), keep)

\* findOrphans: the paths pushed, sorted by a.path.localeCompare(b.path)
findOrphans(nodes, patterns) ==
  SortStrings(SelectPaths(nodes, {nodes[i].path : i \in {j \in 1..Len(nodes) :
                                                      IsOrphan(nodes[j], patterns)}}))

\* /\/(cli|main|index|server|app|page)\.[jt]sx?$/.test(filePath)
LikelyEntryName(filePath) ==
  \E nm \in { <<"c", "l", "i">>, <<"m", "a", "i", "n">>, <<"i", "n", "d", "e", "x">>,
              <<"s", "e", "r", "v", "e", "r">>, <<"a", "p", "p">>, <<"p", "a", "g", "e">> },
     ext \in { <<"j", "s">>, <<"t", "s">>, <<"j", "s", "x">>, <<"t", "s", "x">> } :
     EndsWith(filePath, <<"/">> \o nm \o <<".">> \o ext)

\* the test findEntryPoints applies to one node
IsListedEntryPoint(node) ==
  /\ ~HasInternalDeps(node.uses)
  /\ LET isLikelyEntry == \/ LikelyEntryName(node.path)
                          \/ StartsWith(node.path, <<"/", "b", "i", "n", "/">>)
                          \/ StartsWith(node.path, <<"/", "a", "p", "p", "/">>)
                          \/ Len(node.usedBy) > 0
     IN  isLikelyEntry \/ Len(node.usedBy) = 0

\* stable insertion by descending count
RECURSIVE InsertByCountDesc(_, _)
InsertByCountDesc(sorted, x) ==
  IF sorted = <<>> THEN <<x>>
  ELSE IF x.count > Head(sorted).count THEN <<x>> \o sorted
  ELSE <<Head(sorted)>> \o InsertByCountDesc(Tail(sorted), x)

RECURSIVE SortByCountDesc(_)
SortByCountDesc(list) ==
  IF list = <<>> THEN <<>>
  ELSE InsertByCountDesc(SortByCountDesc(DropLast(list, 1)), list[Len(list)])

RECURSIVE ListedEntryPoints(_)
ListedEntryPoints(nodes) ==
  IF nodes = <<>> THEN <<>>
  ELSE (IF IsListedEntryPoint(Head(nodes))
          THEN << [path |-> Head(nodes).path, count |-> Len(Head(nodes).usedBy)] >>
        ELSE <<>>) \o ListedEntryPoints(Tail(nodes))

\* findEntryPoints: sorted by dependents, most first
findEntryPoints(nodes) ==
  LET sorted == SortByCountDesc(ListedEntryPoints(nodes))
  IN  [i \in 1..Len(sorted) |-> sorted[i].path]

-----------------------------------------------------------------------------
(* graph.js: findClusters                                                  *)

\* Set.add on an insertion-ordered set
SetAdd(list, x) == IF Has(list, x) THEN list ELSE Append(list, x)

\* first key of the node map, in insertion order, among those in keep, or Null
FirstKey(nodes, keep) ==
  IF \E i \in 1..Len(nodes) : nodes[i].path \in keep
    THEN nodes[CHOOSE i \in 1..Len(nodes) :
                 nodes[i].path \in keep /\ \A j \in 1..(i - 1) : nodes[j].path \notin keep].path
  ELSE Null

\* step 1, first loop: nodes matching an entry point pattern
RECURSIVE PatternEntryPoints(_, _, _, _)
PatternEntryPoints(nodes, patterns, k, eps) ==
  IF k > Len(nodes) THEN eps
  ELSE PatternEntryPoints(nodes, patterns, k + 1,
         IF SomePatternTests(patterns, nodes[k].path) THEN SetAdd(eps, nodes[k].path) ELSE eps)

\* step 1, second loop: unused nodes that are HTTP-called or have no internal deps
RECURSIVE LeafEntryPoints(_, _, _)
LeafEntryPoints(nodes, k, eps) ==
  IF k > Len(nodes) THEN eps
  ELSE LeafEntryPoints(nodes, k + 1,
         IF Len(nodes[k].usedBy) = 0
           THEN IF Len(nodes[k].calledBy) > 0 THEN SetAdd(eps, nodes[k].path)
                ELSE IF ~HasInternalDeps(nodes[k].uses) THEN SetAdd(eps, nodes[k].path)
                ELSE eps
         ELSE eps)

ClusterEntryPoints(nodes, patterns) ==
  LeafEntryPoints(nodes, 1, PatternEntryPoints(nodes, patterns, 1, <<>>))

\* importPath.replace(/^\.\//, '').replace(/^\.\.\//, '')
BaseName(importPath) ==
  LET s1 == IF StartsWith(importPath, <<".", "/">>) THEN SliceFrom(importPath, 2) ELSE importPath
  IN  IF StartsWith(s1, <<".", ".", "/">>) THEN SliceFrom(s1, 3) ELSE s1

\* resolveImport (fromDir is not read by the code)
resolveImport(nodes, importPath) ==
  LET exact == FirstKey(nodes, {fp \in NodePaths(nodes) : fp = importPath})
      aliasPath == <<"/">> \o SliceFrom(importPath, 2)
      viaAlias == FirstKey(nodes, {fp \in NodePaths(nodes) :
                    \/ fp = aliasPath
                    \/ fp = aliasPath \o <<".", "t", "s">>
                    \/ fp = aliasPath \o <<".", "t", "s", "x">>
                    \/ fp = aliasPath \o <<".", "j", "s">>
                    \/ fp = aliasPath \o <<".", "j", "s", "x">>
                    \/ fp = aliasPath \o <<"/", "i", "n", "d", "e", "x", ".", "t", "s">>
                    \/ fp = aliasPath \o <<"/", "i", "n", "d", "e", "x", ".", "t", "s", "x">>
                    \/ fp = aliasPath \o <<"/", "i", "n", "d", "e", "x", ".", "j", "s">>})
      baseName == BaseName(importPath)
      viaRelative == FirstKey(nodes, {fp \in NodePaths(nodes) :
                    \/ EndsWith(fp, <<"/">> \o baseName \o <<".", "j", "s">>)
                    \/ EndsWith(fp, <<"/">> \o baseName \o <<".", "t", "s">>)
                    \/ EndsWith(fp, <<"/">> \o baseName \o <<".", "t", "s", "x">>)
                    \/ EndsWith(fp, <<"/">> \o baseName)
                    \/ EndsWith(fp, <<"/">> \o baseName \o <<"/", "i", "n", "d", "e", "x", ".", "j", "s">>)
                    \/ EndsWith(fp, <<"/">> \o baseName \o <<"/", "i", "n", "d", "e", "x", ".", "t", "s">>)})
      partial == FirstKey(nodes, {fp \in NodePaths(nodes) : Includes(fp, importPath)})
      isAlias == StartsWith(importPath, <<"@", "/">>) \/ StartsWith(importPath, <<"~", "/">>)
      isRelative == StartsWith(importPath, <<".">>)
  IN  IF exact # Null THEN exact
      ELSE IF isAlias /\ viaAlias # Null THEN viaAlias
      ELSE IF isRelative /\ viaRelative # Null THEN viaRelative
      ELSE partial

RECURSIVE traverse(_, _, _)
RECURSIVE TraverseDeps(_, _, _, _)

\* the loop over node.uses inside traverse
TraverseDeps(nodes, deps, k, visited) ==
  IF k > Len(deps) THEN visited
  ELSE LET resolved == resolveImport(nodes, deps[k])
       IN  TraverseDeps(nodes, deps, k + 1,
             IF resolved # Null /\ resolved \in NodePaths(nodes)
               THEN traverse(nodes, resolved, visited) ELSE visited)

\* traverse: the visited set; every member is also added to reachable
traverse(nodes, filePath, visited) ==
  IF filePath \in visited THEN visited
  ELSE IF filePath \notin NodePaths(nodes) THEN visited \cup {filePath}
  ELSE TraverseDeps(nodes, NodeAt(nodes, filePath).uses, 1, visited \cup {filePath})

\* step 2: for (const ep of entryPoints) traverse(ep), each with a fresh visited
RECURSIVE ReachableFrom(_, _, _)
ReachableFrom(nodes, eps, reachable) ==
  IF eps = <<>> THEN reachable
  ELSE ReachableFrom(nodes, Tail(eps), reachable \cup traverse(nodes, Head(eps), {}))

\* step 3: the isolated set, in node-map order
RECURSIVE IsolatedList(_, _)
IsolatedList(nodes, reachable) ==
  IF nodes = <<>> THEN <<>>
  ELSE (IF Head(nodes).path \notin reachable THEN <<Head(nodes).path>> ELSE <<>>)
         \o IsolatedList(Tail(nodes), reachable)

\* queue.push for each resolvable isolated dep not yet in the cluster
RECURSIVE PushUses(_, _, _, _, _, _)
PushUses(nodes, deps, k, isolated, cluster, queue) ==
  IF k > Len(deps) THEN queue
  ELSE LET resolved == resolveImport(nodes, deps[k])
       IN  PushUses(nodes, deps, k + 1, isolated, cluster,
             IF resolved # Null /\ Has(isolated, resolved) /\ ~Has(cluster, resolved)
               THEN Append(queue, resolved) ELSE queue)

\* queue.push for each isolated user not yet in the cluster
RECURSIVE PushUsers(_, _, _, _, _)
PushUsers(users, k, isolated, cluster, queue) ==
  IF k > Len(users) THEN queue
  ELSE PushUsers(users, k + 1, isolated, cluster,
         IF Has(isolated, users[k]) /\ ~Has(cluster, users[k])
           THEN Append(queue, users[k]) ELSE queue)

\* buildCluster: the while loop; cw holds cluster, assigned and queue
RECURSIVE ClusterLoop(_, _, _)
ClusterLoop(nodes, isolated, cw) ==
  IF cw.queue = <<>> THEN cw
  ELSE LET file == Head(cw.queue)
           rest == Tail(cw.queue)
       IN  IF Has(cw.cluster, file) \/ ~Has(isolated, file)
             THEN ClusterLoop(nodes, isolated, [cw EXCEPT !.queue = rest])
           ELSE LET cluster == Append(cw.cluster, file)
                    assigned == cw.assigned \cup {file}
                IN  IF file \notin NodePaths(nodes)
                      THEN ClusterLoop(nodes, isolated,
                             [cluster |-> cluster, assigned |-> assigned, queue |-> rest])
                    ELSE LET node == NodeAt(nodes, file)
                             q1 == PushUses(nodes, node.uses, 1, isolated, cluster, rest)
                             q2 == PushUsers(node.usedBy, 1, isolated, cluster, q1)
                         IN  ClusterLoop(nodes, isolated,
                               [cluster |-> cluster, assigned |-> assigned, queue |-> q2])

\* step 4: for (const file of isolated) if (!assigned.has(file)) buildCluster(file)
RECURSIVE ClusterSweep(_, _, _, _, _)
ClusterSweep(nodes, isolated, k, assigned, clusters) ==
  IF k > Len(isolated) THEN clusters
  ELSE IF isolated[k] \in assigned
    THEN ClusterSweep(nodes, isolated, k + 1, assigned, clusters)
  ELSE LET cw == ClusterLoop(nodes, isolated,
                   [cluster |-> <<>>, assigned |-> assigned, queue |-> <<isolated[k]>>])
           clusterFiles == SortStrings(cw.cluster)
       IN  ClusterSweep(nodes, isolated, k + 1, cw.assigned,
             IF Len(cw.cluster) > 0
               THEN Append(clusters, [size |-> Len(clusterFiles), count |-> Len(clusterFiles),
                                      files |-> clusterFiles])
             ELSE clusters)

IsolatedOf(nodes, patterns) ==
  IsolatedList(nodes, ReachableFrom(nodes, ClusterEntryPoints(nodes, patterns), {}))

\* findClusters: clusters sorted largest first
findClusters(nodes, patterns) ==
  LET isolated == IsolatedOf(nodes, patterns)
      sorted == SortByCountDesc(ClusterSweep(nodes, isolated, 1, {}, <<>>))
  IN  IF Len(isolated) = 0 THEN <<>>
      ELSE [i \in 1..Len(sorted) |-> [size |-> sorted[i].size, files |-> sorted[i].files]]

-----------------------------------------------------------------------------
(* graph.js: calculateBlastRadius                                          *)

RECURSIVE collectDependents(_, _, _, _)
RECURSIVE CollectUsedBy(_, _, _, _, _)

\* a loop over node.usedBy that lists the dependents without descending into them
RECURSIVE CollectUsedByShallow(_, _, _, _, _)
CollectUsedByShallow(nodes, usedBy, k, depth, st) ==
  IF k > Len(usedBy) THEN st
  ELSE LET dependent == usedBy[k]
       IN  CollectUsedByShallow(nodes, usedBy, k + 1, depth,
             IF dependent \notin st.visited
               THEN [st EXCEPT !.direct = Append(@, dependent),
                               !.visited = @ \cup {dependent}]
             ELSE st)

\* the loop over node.usedBy inside collectDependents
CollectUsedBy(nodes, usedBy, k, depth, st) ==
  IF k > Len(usedBy) THEN st
  ELSE LET dependent == usedBy[k]
       IN  CollectUsedBy(nodes, usedBy, k + 1, depth,
             IF dependent \notin st.visited
               THEN collectDependents(nodes, dependent, depth + 1,
                      IF depth = 0 THEN [st EXCEPT !.direct = Append(@, dependent)]
                      ELSE [st EXCEPT !.transitive = Append(@, dependent)])
             ELSE st)

\* a loop over node.calledBy that does not consult the visited set
RECURSIVE CollectCallersUnvisited(_, _, _)
CollectCallersUnvisited(calledBy, k, st) ==
  IF k > Len(calledBy) THEN st
  ELSE CollectCallersUnvisited(calledBy, k + 1,
         IF ~Has(st.direct, calledBy[k])
           THEN [st EXCEPT !.httpCallers = Append(@, calledBy[k])]
         ELSE st)

\* the loop over node.calledBy at depth 0
RECURSIVE CollectCallers(_, _, _)
CollectCallers(calledBy, k, st) ==
  IF k > Len(calledBy) THEN st
  ELSE CollectCallers(calledBy, k + 1,
         IF calledBy[k] \notin st.visited /\ ~Has(st.direct, calledBy[k])
           THEN [st EXCEPT !.httpCallers = Append(@, calledBy[k])]
         ELSE st)

collectDependents(nodes, filePath, depth, st) ==
  IF filePath \in st.visited THEN st
  ELSE LET entered == [st EXCEPT !.visited = @ \cup {filePath}]
       IN  IF filePath \notin NodePaths(nodes) THEN entered
           ELSE LET node == NodeAt(nodes, filePath)
                    afterUsedBy == CollectUsedBy(nodes, node.usedBy, 1, depth, entered)
                IN  IF depth = 0 THEN CollectCallers(node.calledBy, 1, afterUsedBy)
                    ELSE afterUsedBy

\* a lookup that tries the partial match before the exact key
ActualPathPartialFirst(nodes, targetPath) ==
  LET normalized == IF StartsWith(targetPath, <<"/">>) THEN targetPath
                    ELSE <<"/">> \o targetPath
      partial == FirstMatching(nodes, targetPath)
  IN  IF partial # Null THEN partial
      ELSE IF normalized \in NodePaths(nodes) THEN normalized
      ELSE Null

\* `File not found in graph: ${targetPath}`
NotFoundMessage(targetPath) ==
  <<"F", "i", "l", "e", " ", "n", "o", "t", " ", "f", "o", "u", "n", "d", " ",
    "i", "n", " ", "g", "r", "a", "p", "h", ":", " ">> \o targetPath

\* the node the target names: exact key first, else the first key containing it
ActualPath(nodes, targetPath) ==
  LET normalized == IF StartsWith(targetPath, <<"/">>) THEN targetPath
                    ELSE <<"/">> \o targetPath
  IN  IF normalized \in NodePaths(nodes) THEN normalized
      ELSE FirstMatching(nodes, targetPath)

calculateBlastRadius(nodes, targetPath) ==
  LET actualPath == ActualPath(nodes, targetPath)
      st == collectDependents(nodes, actualPath, 0,
              [visited |-> {}, direct |-> <<>>, transitive |-> <<>>, httpCallers |-> <<>>])
  IN  IF actualPath = Null THEN [error |-> NotFoundMessage(targetPath)]
      ELSE [file |-> actualPath,
            direct |-> SortStrings(st.direct),
            transitive |-> SortStrings(st.transitive),
            httpCallers |-> SortStrings(st.httpCallers),
            total |-> Len(st.direct) + Len(st.transitive) + Len(st.httpCallers)]

-----------------------------------------------------------------------------
(* The project and the records it can hold                                 *)

SrcDir == <<"/", "s", "r", "c">>
LibDir == <<"/", "l", "i", "b">>

NameA == <<"a", ".", "j", "s">>
NameB == <<"b", ".", "j", "s">>
NameC == <<"c", ".", "j", "s">>
NameD == <<"d", ".", "j", "s">>

PathA == SrcDir \o <<"/">> \o NameA
PathB == SrcDir \o <<"/">> \o NameB
PathC == SrcDir \o <<"/">> \o NameC
PathD == LibDir \o <<"/">> \o NameD

\* references: sibling modules, a missing module, a root alias, bare names
RefA == <<".", "/", "a">>
RefB == <<".", "/", "b">>
RefC == <<".", "/", "c">>
RefMissing == <<".", "/", "m">>
RefAliasA == <<"@", "/", "s", "r", "c", "/", "a">>
RefBareA == <<"a">>
RefBareB == <<"b">>
RefBareD == <<"d">>
RefUpA == <<".", ".", "/", "s", "r", "c", "/", "a">>
RefUpB == <<".", ".", "/", "s", "r", "c", "/", "b">>
RefUpD == <<".", ".", "/", "l", "i", "b", "/", "d">>

\* the folders with a record, in the order findDocMetaFiles returns them, and
\* the keys of each record's files object
Layout ==
  << [folderPath |-> SrcDir, names |-> <<NameA, NameB>>],
     [folderPath |-> LibDir, names |-> <<NameD>>] >>

UsesChoices == {RefA, RefB, RefMissing, RefAliasA, RefBareA, RefBareB}
UsedByChoices == {PathA, PathB, PathD}
CalledByChoices == {PathD}

\* the most list entries (uses, usedBy, calledBy together) the drawn records hold
MaxEntries == 2

\* all sequences over S of length exactly n
RECURSIVE SeqsOfLen(_, _)
SeqsOfLen(S, n) ==
  IF n = 0 THEN {<<>>}
  ELSE {Append(q, x) : q \in SeqsOfLen(S, n - 1), x \in S}

\* a file entry; purpose, exports and calls are not read by the builder or
\* the analyses
File(name, uses, usedBy, calledBy) ==
  [name |-> name, purpose |-> "[purpose]", exports |-> <<>>, uses |-> uses,
   usedBy |-> usedBy, calls |-> <<>>, calledBy |-> calledBy]

\* a per-folder record
Record(folderPath, files) ==
  [folderPath |-> folderPath, v |-> 2, purpose |-> "[purpose]", files |-> files,
   history |-> <<>>, updated |-> Earlier]

\* the file entries a record can hold for one name with exactly n list entries
FileEntries(name, n) ==
  UNION { UNION { { File(name, u, ub, cb) :
                      u \in SeqsOfLen(UsesChoices, nu),
                      ub \in SeqsOfLen(UsedByChoices, nb),
                      cb \in SeqsOfLen(CalledByChoices, n - nu - nb) } :
                  nb \in 0..(n - nu) } :
          nu \in 0..n }

\* the files objects over the given names holding at most budget list entries
RECURSIVE FilesWithin(_, _)
FilesWithin(names, budget) ==
  IF names = <<>> THEN {[files |-> <<>>, used |-> 0]}
  ELSE UNION { { [files |-> <<f>> \o r.files, used |-> n + r.used] :
                   f \in FileEntries(Head(names), n),
                   r \in FilesWithin(Tail(names), budget - n) } :
               n \in 0..budget }

\* the record sequences over the layout holding at most budget list entries
RECURSIVE RecordsWithin(_, _)
RecordsWithin(layout, budget) ==
  IF layout = <<>> THEN {<<>>}
  ELSE UNION { { << Record(Head(layout).folderPath, r.files) >> \o rest :
                   rest \in RecordsWithin(Tail(layout), budget - r.used) } :
               r \in FilesWithin(Head(layout).names, budget) }

\* the records of the cycle detection test: a uses b uses c uses a
ScenarioCycle ==
  << Record(SrcDir,
      << File(NameA, <<RefB>>, <<PathC>>, <<>>),
                   File(NameB, <<RefC>>, <<PathA>>, <<>>),
                   File(NameC, <<RefA>>, <<PathB>>, <<>>) >>) >>

\* b and d both use a, and b also uses d
ScenarioDiamond ==
  << Record(SrcDir,
      << File(NameA, <<>>, <<PathD, PathB>>, <<>>),
                   File(NameB, <<RefA, RefUpD>>, <<>>, <<>>) >>),
     Record(LibDir,
      << File(NameD, <<RefUpA>>, <<PathB>>, <<>>) >>) >>

\* d uses b, b uses a, and d also calls the HTTP route a serves
ScenarioHttp ==
  << Record(SrcDir,
      << File(NameA, <<>>, <<PathB>>, <<PathD>>),
                   File(NameB, <<RefA>>, <<PathD>>, <<>>) >>),
     Record(LibDir,
      << File(NameD, <<RefUpB>>, <<>>, <<>>) >>) >>

\* the records of the blast radius test: a used by b used by c
ScenarioChain ==
  << Record(SrcDir,
      << File(NameA, <<>>, <<PathB>>, <<>>),
                   File(NameB, <<RefA>>, <<PathC>>, <<>>),
                   File(NameC, <<RefB>>, <<>>, <<>>) >>) >>

\* a nested folder whose file path contains the path of a file loaded later
NestedDir == SrcDir \o LibDir

PathNestedD == NestedDir \o <<"/">> \o NameD

RefUpUpD == <<".", ".", "/">> \o RefUpD

ScenarioNested ==
  << Record(NestedDir,
      << File(NameD, <<RefUpUpD>>, <<>>, <<>>) >>),
     Record(LibDir,
      << File(NameD, <<>>, <<PathNestedD>>, <<>>) >>) >>

\* a, b and d each name the other two by a bare fragment of their path
ScenarioComplete ==
  << Record(SrcDir,
      << File(NameA, <<RefBareB, RefBareD>>, <<>>, <<>>),
                   File(NameB, <<RefBareD, RefBareA>>, <<>>, <<>>) >>),
     Record(LibDir,
      << File(NameD, <<RefBareA, RefBareB>>, <<>>, <<>>) >>) >>

\* a and c use each other, and d calls the HTTP route a serves
ScenarioCalledCycle ==
  << Record(SrcDir,
      << File(NameA, <<RefC>>, <<PathC>>, <<PathD>>),
                   File(NameC, <<RefA>>, <<PathA>>, <<>>) >>),
     Record(LibDir,
      << File(NameD, <<>>, <<>>, <<>>) >>) >>

Scenarios ==
  {ScenarioCycle, ScenarioDiamond, ScenarioHttp, ScenarioChain, ScenarioNested,
   ScenarioComplete, ScenarioCalledCycle}

InitialRecords == RecordsWithin(Layout, MaxEntries) \cup Scenarios

\* the --blast-radius arguments tried: an exact path, a fragment, an unknown file
TargetChoices ==
  { PathA, PathD, <<"s", "r", "c", "/", "b">>, <<"/", "x", ".", "j", "s">> }

NoAnalysis == [entryPoints |-> <<>>, orphans |-> <<>>, cycles |-> <<>>, clusters |-> <<>>]

NoBlast == [none |-> TRUE]

\* every write of step 5 succeeds and the process is not interrupted
Completes == [kind |-> "complete", at |-> 0]

\* no traversal is being watched
NoWalk == [mode |-> "none", done |-> TRUE]

-----------------------------------------------------------------------------
(* The commands                                                            *)

Init ==
  /\ docMetas \in InitialRecords
  /\ loaded = <<>>
  /\ op = "init"
  /\ status = "ok"
  /\ written = <<>>
  /\ unresolved = <<>>
  /\ linksCreated = 0
  /\ analysis = NoAnalysis
  /\ target = <<>>
  /\ blast = NoBlast
  /\ edits = 0
  /\ request = NoRequest
  /\ resolution = Pending
  /\ fault = Completes
  /\ walk = NoWalk

\* what can go wrong in step 5 with n records to write: writeFileSync throws
\* on the at-th record, or the process is killed before or during that write
PersistOutcomes(n) ==
  {Completes} \cup [kind : {"writeFails", "killedBefore", "killedDuring"}, at : 1..n]

\* a record file whose content JSON.parse rejects
Unparsable(folderPath) == [folderPath |-> folderPath, unparsable |-> TRUE]

\* JSON.parse(fs.readFileSync(docMetaPath, 'utf-8')) returns
Parses(file) == "files" \in DOMAIN file

\* the positions, in docMetaFiles, of the records the try block loads
\* a load that stops at the first record that does not parse
LoadedUntilFailure(disk) ==
  SelectSeq([i \in 1..Len(disk) |-> i],
            LAMBDA i : \A k \in 1..i : Parses(disk[k]))

LoadedPositions(disk) ==
  SelectSeq([i \in 1..Len(disk) |-> i], LAMBDA i : Parses(disk[i]))

\* the values of the docMetas map (graph.js: the contents buildGraph reads)
ReadAll(disk) ==
  [j \in 1..Len(LoadedPositions(disk)) |-> disk[LoadedPositions(disk)[j]]]

\* a step 5 that writes the last record of the map first
PersistBackwards(disk, positions, docs, outcome) ==
  [i \in 1..Len(disk) |->
     LET j == IndexOf(positions, i)
     IN  IF j = 0 THEN disk[i]
         ELSE IF outcome.kind = "complete" \/ j > Len(docs) + 1 - outcome.at THEN docs[j]
         ELSE disk[i]]

\* step 5 under an outcome: the files on disk afterwards. writeFileSync opens
\* the file truncating it, then writes, so a kill during the write leaves a
\* partial file
Persist(disk, positions, docs, outcome) ==
  [i \in 1..Len(disk) |->
     LET j == IndexOf(positions, i)
     IN  IF j = 0 THEN disk[i]
         ELSE IF outcome.kind = "complete" \/ j < outcome.at THEN docs[j]
         ELSE IF j = outcome.at /\ outcome.kind = "killedDuring"
           THEN Unparsable(disk[i].folderPath)
         ELSE disk[i]]

\* the folder paths of the records step 5 wrote completely, in order
WrittenUnder(docs, outcome) ==
  [j \in 1..(IF outcome.kind = "complete" THEN Len(docs) ELSE outcome.at - 1) |->
     docs[j].folderPath]

\* how a run ends under an outcome of step 5
StatusUnder(outcome) ==
  IF outcome.kind = "complete" THEN "ok"
  ELSE IF outcome.kind = "writeFails" THEN "threw"
  ELSE "killed"

\* docmeta usedby, with step 5 ending as the outcome says
UsedbyWith(outcome) ==
  \E run \in {RunUsedBy(ReadAll(docMetas), DefaultAliases)} :
      /\ op' = "usedby"
      /\ loaded' = docMetas
      /\ IF Len(docMetas) = 0
           THEN /\ docMetas' = docMetas
                /\ status' = "ok"
                /\ written' = <<>>
                /\ unresolved' = <<>>
                /\ linksCreated' = 0
                /\ fault' = Completes
         ELSE IF run.threw
           THEN /\ docMetas' = docMetas
                /\ status' = "threw"
                /\ written' = <<>>
                /\ unresolved' = run.unresolved
                /\ linksCreated' = run.linksCreated
                /\ fault' = Completes
         ELSE /\ docMetas' = Persist(docMetas, LoadedPositions(docMetas), run.docs, outcome)
              /\ status' = StatusUnder(outcome)
              /\ written' = WrittenUnder(run.docs, outcome)
              /\ unresolved' = run.unresolved
              /\ linksCreated' = run.linksCreated
              /\ fault' = outcome
      /\ analysis' = NoAnalysis
      /\ target' = <<>>
      /\ blast' = NoBlast
      /\ UNCHANGED <<edits, request, resolution, walk>>

\* docmeta usedby
Usedby == UsedbyWith(Completes)

\* docmeta usedby on a file system that may fail and a process that may be killed
UsedbyFaulty ==
  \E outcome \in PersistOutcomes(Len(LoadedPositions(docMetas))) :
      /\ outcome # Completes
      /\ UsedbyWith(outcome)

\* what a graph run leaves untouched or resets
GraphFrame ==
  /\ UNCHANGED docMetas
  /\ loaded' = docMetas
  /\ status' = "ok"
  /\ written' = <<>>
  /\ unresolved' = <<>>
  /\ linksCreated' = 0
  /\ fault' = Completes
  /\ UNCHANGED <<edits, request, resolution, walk>>

\* docmeta graph: the full analysis
Graph ==
  \E nodes \in {buildGraph(ReadAll(docMetas))} :
      /\ op' = "graph"
      /\ GraphFrame
      /\ analysis' = IF Len(nodes) = 0 THEN NoAnalysis
                     ELSE [entryPoints |-> findEntryPoints(nodes),
                           orphans |-> findOrphans(nodes, EntryPointPatterns),
                           cycles |-> findCycles(nodes),
                           clusters |-> findClusters(nodes, EntryPointPatterns)]
      /\ target' = <<>>
      /\ blast' = NoBlast

\* docmeta graph --blast-radius <file>
BlastRadius ==
  \E t \in TargetChoices, nodes \in {buildGraph(ReadAll(docMetas))} :
        /\ op' = "blast"
        /\ GraphFrame
        /\ analysis' = NoAnalysis
        /\ target' = t
        /\ blast' = IF Len(nodes) = 0 THEN NoBlast ELSE calculateBlastRadius(nodes, t)

Next == Usedby \/ Graph \/ BlastRadius

Spec == Init /\ [][Next]_vars

-----------------------------------------------------------------------------
(* The commands over unreadable records, failing writes and interruptions  *)

\* three folders, each file using the one of the next folder; the usedBy on
\* disk is stale in all three records
ScenarioThreeFolders ==
  << Record(SrcDir,
      << File(NameA, << <<".", "/", "l", "i", "b", "/", "d">> >>, <<PathD>>, <<>>) >>),
     Record(NestedDir,
      << File(NameD, <<RefUpUpD>>, <<>>, <<>>) >>),
     Record(LibDir,
      << File(NameD, <<>>, <<>>, <<>>) >>) >>

\* the records, and the same with one record file replaced by unparsable text
WithUnparsable(docs) ==
  {docs} \cup {[docs EXCEPT ![i] = Unparsable(docs[i].folderPath)] : i \in 1..Len(docs)}

FaultRecords ==
  UNION { WithUnparsable(docs) :
            docs \in Scenarios \cup {ScenarioThreeFolders} \cup RecordsWithin(Layout, 1) }

InitFaults ==
  /\ docMetas \in FaultRecords
  /\ loaded = <<>>
  /\ op = "init"
  /\ status = "ok"
  /\ written = <<>>
  /\ unresolved = <<>>
  /\ linksCreated = 0
  /\ analysis = NoAnalysis
  /\ target = <<>>
  /\ blast = NoBlast
  /\ edits = 0
  /\ request = NoRequest
  /\ resolution = Pending
  /\ fault = Completes
  /\ walk = NoWalk

NextFaults == Usedby \/ UsedbyFaulty \/ Graph \/ BlastRadius

SpecFaults == InitFaults /\ [][NextFaults]_vars

-----------------------------------------------------------------------------
(* docmeta update and docmeta calls: the other writers of the records      *)

\* DEFAULT_CONFIG.maxHistoryEntries
MaxHistoryEntries == 10

\* history.slice(0, maxEntries)
SliceTo(list, n) == IF Len(list) > n THEN SubSeq(list, 1, n) ELSE list

addHistoryEntry(docMeta, summary, files) ==
  [docMeta EXCEPT !.history = SliceTo(<< <<Now, summary, files>> >> \o @, MaxHistoryEntries),
                  !.updated = Now]

trimHistory(docMeta) ==
  [docMeta EXCEPT !.history = SliceTo(@, MaxHistoryEntries)]

writeDocMeta(docMeta) == [docMeta EXCEPT !.updated = Now]

\* Object.keys(docMeta.files)
FileNames(docMeta) == [fi \in 1..Len(docMeta.files) |-> docMeta.files[fi].name]

\* the entry update and sync create for a file that is not documented yet
NewFileEntry(fileName, purpose, fileAnalysis) ==
  [File(fileName, fileAnalysis.uses, <<>>, <<>>)
     EXCEPT !.purpose = purpose, !.exports = fileAnalysis.exports]

\* the entry a purpose update leaves, were it to reset the derived list too
PurposeAndUsedByReset(fileMeta, purpose) ==
  [fileMeta EXCEPT !.purpose = purpose, !.usedBy = <<>>]

\* docMeta.files[fileName].purpose = options.purpose
PurposeUpdated(fileMeta, purpose) == [fileMeta EXCEPT !.purpose = purpose]

\* updateFile on the record of the file's folder; an absent option is ""
updateFile(docMeta, fileName, options, fileAnalysis) ==
  LET k == IndexOf(FileNames(docMeta), fileName)
      d1 == IF k = 0
              THEN [docMeta EXCEPT !.files =
                      Append(@, NewFileEntry(fileName,
                                   IF options.purpose = "" THEN "[purpose]"
                                   ELSE options.purpose, fileAnalysis))]
            ELSE IF options.purpose # ""
              THEN [docMeta EXCEPT !.files[k] = PurposeUpdated(@, options.purpose)]
            ELSE docMeta
      d2 == IF options.history # ""
              THEN addHistoryEntry(d1, options.history, <<fileName>>)
            ELSE d1
  IN  writeDocMeta(trimHistory(d2))

\* updateFolder on the record of the folder
updateFolder(docMeta, options) ==
  LET d1 == IF options.purpose # "" THEN [docMeta EXCEPT !.purpose = options.purpose]
            ELSE docMeta
      d2 == IF options.history # ""
              THEN addHistoryEntry(d1, options.history, FileNames(d1))
            ELSE d1
  IN  writeDocMeta(trimHistory(d2))

\* getCodeFiles(dir): the code files the directory holds, in readdir order
getCodeFiles(disk, dir) ==
  SortStrings(SelectSeq(<<NameA, NameB, NameC, NameD>>,
                        LAMBDA n : PosixJoin(dir, n) \in disk))

\* syncFolder, first loop: add the undocumented files, refresh the others
RECURSIVE SyncAddLoop(_, _, _, _, _, _)
SyncAddLoop(actualFiles, k, documentedFiles, refresh, fileAnalysis, st) ==
  IF k > Len(actualFiles) THEN st
  ELSE LET file == actualFiles[k]
           at == IndexOf(FileNames(st.docMeta), file)
           existing == st.docMeta.files[at]
           next ==
             IF ~Has(documentedFiles, file)
               THEN [st EXCEPT !.docMeta.files =
                                 Append(@, NewFileEntry(file, "[purpose]", fileAnalysis)),
                               !.added = @ + 1,
                               !.changes = Append(@, file)]
             ELSE IF refresh /\ (existing.exports # fileAnalysis.exports
                                 \/ existing.uses # fileAnalysis.uses)
               THEN [st EXCEPT !.docMeta.files[at] =
                                 [@ EXCEPT !.exports = fileAnalysis.exports,
                                           !.uses = fileAnalysis.uses],
                               !.refreshed = @ + 1,
                               !.changes = Append(@, file)]
             ELSE st
       IN  SyncAddLoop(actualFiles, k + 1, documentedFiles, refresh, fileAnalysis, next)

\* syncFolder, second loop: delete the entries of the files that are gone
RECURSIVE SyncRemoveLoop(_, _, _, _)
SyncRemoveLoop(actualFiles, documentedFiles, k, st) ==
  IF k > Len(documentedFiles) THEN st
  ELSE LET file == documentedFiles[k]
           next ==
             IF ~Has(actualFiles, file)
               THEN [st EXCEPT !.docMeta.files = SelectSeq(@, LAMBDA f : f.name # file),
                               !.removed = @ + 1,
                               !.changes = Append(@, file)]
             ELSE st
       IN  SyncRemoveLoop(actualFiles, documentedFiles, k + 1, next)

\* the history summary of a sync, by its three counts
SyncSummary(added, removed, refreshed) == <<"Sync", added, removed, refreshed>>

syncFolder(docMeta, actualFiles, refresh, fileAnalysis) ==
  LET documentedFiles == FileNames(docMeta)
      st0 == [docMeta |-> docMeta, added |-> 0, removed |-> 0, refreshed |-> 0,
              changes |-> <<>>]
      st1 == SyncAddLoop(actualFiles, 1, documentedFiles, refresh, fileAnalysis, st0)
      st2 == SyncRemoveLoop(actualFiles, documentedFiles, 1, st1)
  IN  IF st2.added > 0 \/ st2.removed > 0 \/ st2.refreshed > 0
        THEN writeDocMeta(trimHistory(addHistoryEntry(st2.docMeta,
                 SyncSummary(st2.added, st2.removed, st2.refreshed), st2.changes)))
      ELSE docMeta

\* syncAll: syncFolder on every record under the root
syncAll(docs, disk, refresh, fileAnalysis) ==
  [di \in 1..Len(docs) |->
     syncFolder(docs[di], getCodeFiles(disk, docs[di].folderPath), refresh, fileAnalysis)]

\* [...new Set(list)]
RECURSIVE Distinct(_)
Distinct(list) ==
  IF list = <<>> THEN <<>>
  ELSE LET init == Distinct(DropLast(list, 1))
       IN  SetAdd(init, list[Len(list)])

\* updateDocMetaFiles, the body of the loop over one record's files
CallsOfFile(fileMeta, filePath, calledByMap, resolvedCallsMap) ==
  LET hasCalledBy == filePath \in DOMAIN calledByMap
      callers == IF hasCalledBy THEN SortStrings(calledByMap[filePath]) ELSE <<>>
      oldCalledBy == SortStrings(fileMeta.calledBy)
      calledByChanged == hasCalledBy /\ oldCalledBy # callers
      f1 == IF hasCalledBy
              THEN [fileMeta EXCEPT !.calledBy = IF calledByChanged THEN callers
                                                 ELSE oldCalledBy]
            ELSE fileMeta
      hasCalls == filePath \in DOMAIN resolvedCallsMap
      sortedCalls == IF hasCalls THEN SortStrings(Distinct(resolvedCallsMap[filePath]))
                     ELSE <<>>
      oldCalls == SortStrings(fileMeta.calls)
      callsChanged == hasCalls /\ oldCalls # sortedCalls
      f2 == IF hasCalls
              THEN [f1 EXCEPT !.calls = IF callsChanged THEN sortedCalls ELSE oldCalls]
            ELSE f1
  IN  [file |-> f2, modified |-> calledByChanged \/ callsChanged]

\* the history summary of a calls run, by the number of modified files
CallsSummary(n) == <<"Resolved", n>>

\* updateDocMetaFiles on one record
CallsOfRecord(docMeta, calledByMap, resolvedCallsMap) ==
  LET per == [fi \in 1..Len(docMeta.files) |->
                CallsOfFile(docMeta.files[fi],
                            PosixJoin(docMeta.folderPath, docMeta.files[fi].name),
                            calledByMap, resolvedCallsMap)]
      modifiedFiles == SelectSeq(FileNames(docMeta),
                         LAMBDA n : per[IndexOf(FileNames(docMeta), n)].modified)
  IN  IF modifiedFiles # <<>>
        THEN writeDocMeta(addHistoryEntry(
               [docMeta EXCEPT !.files = [fi \in 1..Len(docMeta.files) |-> per[fi].file],
                               !.v = IF @ < 3 THEN 3 ELSE @],
               CallsSummary(Len(modifiedFiles)), modifiedFiles))
      ELSE docMeta

updateDocMetaFiles(docs, calledByMap, resolvedCallsMap) ==
  [di \in 1..Len(docs) |-> CallsOfRecord(docs[di], calledByMap, resolvedCallsMap)]

\* the options of docmeta update tried: --purpose, --history, neither
OptionChoices ==
  { [purpose |-> "stated", history |-> ""],
    [purpose |-> "", history |-> "note"],
    [purpose |-> "", history |-> ""] }

\* what analyzeFile extracts from the files on disk
AnalysisChoices ==
  { [exports |-> <<>>, uses |-> <<>>],
    [exports |-> << <<"x">> >>, uses |-> <<RefA>>] }

\* the code files on disk: as documented, one more, one fewer
DiskChoices ==
  { {PathA, PathB, PathD, PathNestedD},
    {PathA, PathB, PathC, PathD, PathNestedD},
    {PathA, PathD, PathNestedD} }

\* the files docmeta update is pointed at
UpdateNames == {NameA, NameC}

\* the resolved HTTP references docmeta calls finds: none, or d calling a
CalledByMapChoices == { EmptyMap, MapSet(EmptyMap, PathA, <<PathD>>) }

ResolvedCallsMapChoices == { EmptyMap, MapSet(EmptyMap, PathD, <<PathA, PathA>>) }

MaintenanceRecords == Scenarios \cup RecordsWithin(Layout, 1)

InitMaintenance ==
  /\ docMetas \in MaintenanceRecords
  /\ loaded = <<>>
  /\ op = "init"
  /\ status = "ok"
  /\ written = <<>>
  /\ unresolved = <<>>
  /\ linksCreated = 0
  /\ analysis = NoAnalysis
  /\ target = <<>>
  /\ blast = NoBlast
  /\ edits = 0
  /\ request = NoRequest
  /\ resolution = Pending
  /\ fault = Completes
  /\ walk = NoWalk

\* the most update and calls commands a run of the model issues
MaxEdits == 1

\* what the update and calls commands leave of the other commands' results
MaintenanceFrame ==
  /\ edits < MaxEdits
  /\ edits' = edits + 1
  /\ UNCHANGED <<request, resolution, walk>>
  /\ fault' = Completes
  /\ loaded' = docMetas
  /\ status' = "ok"
  /\ written' = <<>>
  /\ unresolved' = <<>>
  /\ linksCreated' = 0
  /\ analysis' = NoAnalysis
  /\ target' = <<>>
  /\ blast' = NoBlast

\* docmeta update <file> [--purpose ...] [--history ...]
UpdateFile ==
  \E di \in 1..Len(docMetas), fileName \in UpdateNames,
     options \in OptionChoices, fileAnalysis \in AnalysisChoices :
      /\ op' = "update"
      /\ docMetas' = [docMetas EXCEPT
                        ![di] = updateFile(@, fileName, options, fileAnalysis)]
      /\ MaintenanceFrame

\* docmeta update <folder> [--purpose ...] [--history ...]
UpdateFolder ==
  \E di \in 1..Len(docMetas), options \in OptionChoices :
      /\ op' = "updateFolder"
      /\ docMetas' = [docMetas EXCEPT ![di] = updateFolder(@, options)]
      /\ MaintenanceFrame

\* docmeta update --sync [--refresh]
Sync ==
  \E disk \in DiskChoices, refresh \in BOOLEAN, fileAnalysis \in AnalysisChoices :
      /\ op' = "sync"
      /\ docMetas' = syncAll(docMetas, disk, refresh, fileAnalysis)
      /\ MaintenanceFrame

\* docmeta calls
Calls ==
  \E calledByMap \in CalledByMapChoices, resolvedCallsMap \in ResolvedCallsMapChoices :
      /\ op' = "calls"
      /\ docMetas' = updateDocMetaFiles(docMetas, calledByMap, resolvedCallsMap)
      /\ MaintenanceFrame

NextMaintenance ==
  Usedby \/ Graph \/ BlastRadius \/ UpdateFile \/ UpdateFolder \/ Sync \/ Calls

SpecMaintenance == InitMaintenance /\ [][NextMaintenance]_vars

-----------------------------------------------------------------------------
(* resolvePathAlias on its own                                             *)

\* the project root of the calls
RootPath == <<"/", "p">>

\* the directories the references are found in: the root, inside, outside
FromDirChoices ==
  { <<"/", "p">>,
    <<"/", "p", "/", "s", "r", "c">>,
    <<"/", "p", "/", "s", "r", "c", "/", "l", "i", "b">>,
    <<"/", "q">> }

RelativeReferences ==
  { <<".", "/", "a">>,
    <<".", ".", "/", "a">>,
    <<".", ".", "/", ".", ".", "/", ".", ".", "/", "a">>,
    <<".">>,
    <<".", ".">>,
    <<".", "/">>,
    <<".", ".", "/">>,
    <<".", "/", "a", "/", ".", ".", "/", "b">>,
    <<".", "/", "a", "/">>,
    <<".", "/", "a", "/", "/", "b">>,
    <<".", "/", "a", "/", ".", "/", "b">>,
    <<".", "a">>,
    <<".", ".", "a", "/", "b">>,
    <<".", "/", ".", ".", "/", ".", ".", "/", "a", "/", ".", ".">> }

OtherReferences ==
  { <<"@", "/", "l", "i", "b", "/", "a">>,
    <<"~", "/", "a">>,
    <<"@", "l", "i", "b", "/", "a">>,
    <<"@", "/", "l", "i", "b">>,
    <<"l", "i", "b">>,
    <<"l", "i", "b", "/", "a">>,
    <<"u", "t", "i", "l">>,
    <<"u", "t", "i", "l", "s">>,
    <<"r", "e", "a", "c", "t">>,
    <<"@">>,
    <<"@", "/">>,
    <<>> }

\* the alias table of the resolvePathAlias tests, shortened
TestAliases ==
  << [pattern |-> <<"@", "/", "*">>, targets |-> << <<"/", "*">> >>],
       [pattern |-> <<"~", "/", "*">>, targets |-> << <<"/", "*">> >>],
       [pattern |-> <<"@", "l", "i", "b", "/", "*">>, targets |-> << <<"/", "s", "r", "c", "/", "l", "i", "b", "/", "*">> >>],
       [pattern |-> <<"l", "i", "b">>, targets |-> << <<"/", "s", "r", "c", "/", "l", "i", "b">> >>] >>

\* entries that overlap: two wildcards, a wildcard and an exact entry
OverlapAliases ==
  << [pattern |-> <<"@", "/", "*">>, targets |-> << <<"/", "*">> >>],
       [pattern |-> <<"~", "/", "*">>, targets |-> << <<"/", "*">> >>],
       [pattern |-> <<"@", "/", "l", "i", "b", "/", "*">>, targets |-> << <<"/", "s", "r", "c", "/", "l", "i", "b", "/", "*">>, <<"/", "a", "l", "t", "/", "*">> >>],
       [pattern |-> <<"l", "i", "b", "/", "*">>, targets |-> << <<"/", "x">> >>],
       [pattern |-> <<"l", "i", "b", "/", "a">>, targets |-> << <<"/", "y">>, <<"/", "z">> >>] >>

\* an exact entry whose target carries a wildcard suffix
StarTargetAliases ==
  << [pattern |-> <<"@", "/", "*">>, targets |-> << <<"/", "*">> >>],
       [pattern |-> <<"~", "/", "*">>, targets |-> << <<"/", "*">> >>],
       [pattern |-> <<"u", "t", "i", "l", "s">>, targets |-> << <<"/", "s", "r", "c", "/", "u", "t", "i", "l", "s", "/", "*">> >>],
       [pattern |-> <<"u", "t", "i", "l">>, targets |-> << <<"/", "s", "r", "c", "/", "u", "t", "i", "l">> >>] >>

AliasTables == {DefaultAliases, TestAliases, OverlapAliases, StarTargetAliases}

RequestChoices ==
  [importPath : RelativeReferences \cup OtherReferences,
   aliases : AliasTables,
   fromDir : FromDirChoices]

InitResolve ==
  /\ docMetas = <<>>
  /\ loaded = <<>>
  /\ op = "init"
  /\ status = "ok"
  /\ written = <<>>
  /\ unresolved = <<>>
  /\ linksCreated = 0
  /\ analysis = NoAnalysis
  /\ target = <<>>
  /\ blast = NoBlast
  /\ edits = 0
  /\ request \in RequestChoices
  /\ resolution = Pending
  /\ fault = Completes
  /\ walk = NoWalk

\* one call resolvePathAlias(importPath, aliases, fromDir, rootPath)
Resolve ==
  /\ resolution = Pending
  /\ resolution' = resolvePathAlias(request.importPath, request.aliases,
                                    FromRelative(RootPath, request.fromDir))
  /\ UNCHANGED <<docMetas, loaded, op, status, written, unresolved, linksCreated,
                 analysis, target, blast, edits, request, fault, walk>>

NextResolve == Resolve

SpecResolve == InitResolve /\ [][NextResolve]_vars

-----------------------------------------------------------------------------
(* graph.js: one compiled entry-point pattern tested against one path      *)

MaxSegments == 3

\* entries of config.entryPointPatterns and patterns of their shapes
GlobMain == <<"*", "*", "/", "m", "a", "i", "n", ".", "j", "s">>
GlobSrcB == <<"s", "r", "c", "/", "b", ".", "j", "s">>
GlobBinAny == <<"b", "i", "n", "/", "*", "*", "/", "*", ".", "j", "s">>
GlobSrcStar == <<"s", "r", "c", "/", "*", ".", "j", "s">>

GlobChoices == {GlobMain, GlobSrcB, GlobBinAny, GlobSrcStar}

SegmentChoices ==
  { <<"s", "r", "c">>, <<"b", "i", "n">>, <<"x", "s", "r", "c">>,
    <<"m", "a", "i", "n", ".", "j", "s">>, <<"d", "o", "m", "a", "i", "n", ".", "j", "s">>,
    <<"b", ".", "j", "s">>, <<"a", "b", ".", "j", "s">>, <<"b", ".", "j", "s", "x">> }

\* canonical paths: '/' + segments joined by '/'
CanonicalPaths ==
  { <<"/">> \o JoinSlash(segs) :
      segs \in UNION { SeqsOfLen(SegmentChoices, n) : n \in 1..MaxSegments } }

GlobRequests == [pattern : GlobChoices, filePath : CanonicalPaths]

InitGlob ==
  /\ docMetas = <<>>
  /\ loaded = <<>>
  /\ op = "init"
  /\ status = "ok"
  /\ written = <<>>
  /\ unresolved = <<>>
  /\ linksCreated = 0
  /\ analysis = NoAnalysis
  /\ target = <<>>
  /\ blast = NoBlast
  /\ edits = 0
  /\ request \in GlobRequests
  /\ resolution = Pending
  /\ fault = Completes
  /\ walk = NoWalk

Matched == <<"matched">>
Unmatched == <<"unmatched">>

\* globToRegex(pattern).test(filePath)
TestPattern ==
  /\ resolution = Pending
  /\ resolution' = IF RegexTest(globToRegex(request.pattern), request.filePath)
                     THEN Matched ELSE Unmatched
  /\ UNCHANGED <<docMetas, loaded, op, status, written, unresolved, linksCreated,
                 analysis, target, blast, edits, request, fault, walk>>

NextGlob == TestPattern

SpecGlob == InitGlob /\ [][NextGlob]_vars

-----------------------------------------------------------------------------
(* The builder over files whose index keys coincide                        *)

NameATs == <<"a", ".", "t", "s">>
NameLib == <<"l", "i", "b", ".", "j", "s">>
NameIndex == <<"i", "n", "d", "e", "x", ".", "j", "s">>

\* references written with and without the extension
RefAJs == <<".", "/", "a", ".", "j", "s">>
RefATs == <<".", "/", "a", ".", "t", "s">>
RefLibJs == <<".", "/", "l", "i", "b", ".", "j", "s">>
RefLibIndex == <<".", "/", "l", "i", "b", "/", "i", "n", "d", "e", "x", ".", "j", "s">>

\* uses lists of at most one reference
UsesUpToOne(refs) == {<<>>} \cup {<<r>> : r \in refs}

\* /src holds a.js, a.ts and b.js: a.js and a.ts share the key /src/a
SameStemRecords ==
  { << Record(SrcDir, << File(NameA, ua, <<>>, <<>>),
                         File(NameATs, ut, <<>>, <<>>),
                         File(NameB, ub, <<>>, <<>>) >>) >> :
      ua \in UsesUpToOne({RefATs, RefB}),
      ut \in UsesUpToOne({RefAJs, RefB}),
      ub \in UsesUpToOne({RefAJs, RefATs, RefA}) }

\* /src holds lib.js and b.js, /src/lib holds index.js: lib.js and the folder
\* of index.js share the key /src/lib
IndexFolderRecords ==
  { << Record(SrcDir, << File(NameLib, ul, <<>>, <<>>),
                         File(NameB, ub, <<>>, <<>>) >>),
       Record(NestedDir, << File(NameIndex, ui, <<>>, <<>>) >>) >> :
      ul \in UsesUpToOne({RefB, RefLibIndex}),
      ub \in UsesUpToOne({RefLibJs, RefLibIndex, <<".", "/", "l", "i", "b">>}),
      ui \in UsesUpToOne({<<".", ".", "/", "l", "i", "b", ".", "j", "s">>,
                           <<".", ".", "/", "b">>}) }

CollidingRecords == SameStemRecords \cup IndexFolderRecords

InitColliding ==
  /\ docMetas \in CollidingRecords
  /\ loaded = <<>>
  /\ op = "init"
  /\ status = "ok"
  /\ written = <<>>
  /\ unresolved = <<>>
  /\ linksCreated = 0
  /\ analysis = NoAnalysis
  /\ target = <<>>
  /\ blast = NoBlast
  /\ edits = 0
  /\ request = NoRequest
  /\ resolution = Pending
  /\ fault = Completes
  /\ walk = NoWalk

NextColliding == Usedby

SpecColliding == InitColliding /\ [][NextColliding]_vars

-----------------------------------------------------------------------------
(* The MCP server's index: DocMetaIndex.blastRadius                        *)

\* for (const t of transitive) if (!allDependents.includes(t)) allDependents.push(t)
RECURSIVE PushMissing(_, _)
PushMissing(allDependents, transitive) ==
  IF transitive = <<>> THEN allDependents
  ELSE PushMissing(SetAdd(allDependents, Head(transitive)), Tail(transitive))

RECURSIVE blastRadius(_, _, _)
RECURSIVE BlastOverDependents(_, _, _, _, _)

\* the loop over directDependents inside blastRadius
BlastOverDependents(fileIndex, directDependents, k, allDependents, visited) ==
  IF k > Len(directDependents) THEN [dependents |-> allDependents, visited |-> visited]
  ELSE LET r == blastRadius(fileIndex, directDependents[k], visited)
       IN  BlastOverDependents(fileIndex, directDependents, k + 1,
                               PushMissing(allDependents, r.dependents), r.visited)

\* blastRadius(targetPath, visited): the list returned and the shared visited
\* set; fileIndex is keyed by path.posix.join(folderPath, fileName) like the
\* node map of graph.js
blastRadius(fileIndex, targetPath, visited) ==
  LET normalized == IF StartsWith(targetPath, <<"/">>) THEN targetPath
                    ELSE <<"/">> \o targetPath
  IN  IF normalized \in visited THEN [dependents |-> <<>>, visited |-> visited]
      ELSE IF normalized \notin NodePaths(fileIndex)
        THEN [dependents |-> <<>>, visited |-> visited \cup {normalized}]
      ELSE BlastOverDependents(fileIndex, NodeAt(fileIndex, normalized).usedBy, 1,
                               NodeAt(fileIndex, normalized).usedBy,
                               visited \cup {normalized})

\* the same question put to the MCP index and to docmeta graph --blast-radius:
\* resolution holds the MCP list, blast the result of calculateBlastRadius
McpQuery ==
  \E t \in TargetChoices, nodes \in {buildGraph(docMetas)} :
      /\ op' = "mcp"
      /\ UNCHANGED docMetas
      /\ loaded' = docMetas
      /\ status' = "ok"
      /\ written' = <<>>
      /\ unresolved' = <<>>
      /\ linksCreated' = 0
      /\ analysis' = NoAnalysis
      /\ target' = t
      /\ blast' = IF Len(nodes) = 0 THEN NoBlast ELSE calculateBlastRadius(nodes, t)
      /\ resolution' = blastRadius(nodes, t, {}).dependents
      /\ fault' = Completes
      /\ UNCHANGED <<edits, request, walk>>

NextMcp == Usedby \/ McpQuery

SpecMcp == Init /\ [][NextMcp]_vars

-----------------------------------------------------------------------------
(* The traversals and the build loop, one call, return or iteration a step *)

\* a call frame: the node the function was called with, the depth argument,
\* and the position of its for loop (0: the body has not started)
Call(node, depth) == [node |-> node, depth |-> depth, i |-> 0]

\* a for loop that stays on the same element
StaysOnElement(i) == i

\* the for loop moves to the next element
Advance(i) == i + 1

Top(stack) == stack[Len(stack)]
Below(stack) == SubSeq(stack, 1, Len(stack) - 1)

\* the nodes of the calls whose body has started, outermost first
RECURSIVE EnteredNodes(_)
EnteredNodes(stack) ==
  IF stack = <<>> THEN <<>>
  ELSE (IF Head(stack).i > 0 THEN <<Head(stack).node>> ELSE <<>>) \o EnteredNodes(Tail(stack))

UsesOf(nodes, p) == IF p \in NodePaths(nodes) THEN NodeAt(nodes, p).uses ELSE <<>>

\* findCycles before its first sweep
CyclesStart ==
  [mode |-> "cycles", done |-> FALSE, k |-> 1, stack |-> <<>>, visited |-> {},
   cycles |-> <<>>]

\* findCycles: the next sweep, call, loop iteration or return of dfsUses
CyclesStep(nodes, w) ==
  IF w.stack = <<>>
    THEN IF w.k > Len(nodes) THEN [w EXCEPT !.done = TRUE]
         ELSE [w EXCEPT !.k = @ + 1, !.visited = {},
                        !.stack = <<Call(nodes[w.k].path, 0)>>]
  ELSE LET top == Top(w.stack)
           below == Below(w.stack)
           path == EnteredNodes(below)
       IN  IF top.i = 0
             THEN IF Has(path, top.node)
                    THEN [w EXCEPT !.cycles = RecordCycle([path |-> path, cycles |-> w.cycles],
                                                         top.node).cycles,
                                   !.stack = below]
                  ELSE IF top.node \in w.visited THEN [w EXCEPT !.stack = below]
                  ELSE [w EXCEPT !.visited = @ \cup {top.node},
                                 !.stack = Append(below, [top EXCEPT !.i = 1])]
           ELSE IF top.i > Len(UsesOf(nodes, top.node)) THEN [w EXCEPT !.stack = below]
           ELSE LET filePath == FirstMatching(nodes, UsesOf(nodes, top.node)[top.i])
                    advanced == Append(below, [top EXCEPT !.i = Advance(@)])
                IN  [w EXCEPT !.stack = IF filePath # Null
                                          THEN Append(advanced, Call(filePath, 0))
                                        ELSE advanced]

\* calculateBlastRadius before collectDependents(actualPath, 0)
BlastStart ==
  [mode |-> "blast", done |-> FALSE, k |-> 1, stack |-> <<>>, visited |-> {},
   direct |-> <<>>, transitive |-> <<>>, httpCallers |-> <<>>]

\* calculateBlastRadius: the lookup of the target, then the next call, loop
\* iteration or return of collectDependents
BlastStep(nodes, targetPath, w) ==
  IF w.stack = <<>>
    THEN IF w.k = 1 /\ ActualPath(nodes, targetPath) # Null
           THEN [w EXCEPT !.k = 2, !.stack = <<Call(ActualPath(nodes, targetPath), 0)>>]
         ELSE [w EXCEPT !.done = TRUE]
  ELSE LET top == Top(w.stack)
           below == Below(w.stack)
       IN  IF top.i = 0
             THEN IF top.node \in w.visited THEN [w EXCEPT !.stack = below]
                  ELSE IF top.node \notin NodePaths(nodes)
                    THEN [w EXCEPT !.visited = @ \cup {top.node}, !.stack = below]
                  ELSE [w EXCEPT !.visited = @ \cup {top.node},
                                 !.stack = Append(below, [top EXCEPT !.i = 1])]
           ELSE LET node == NodeAt(nodes, top.node)
                IN  IF top.i > Len(node.usedBy)
                      THEN IF top.depth = 0
                             THEN [CollectCallers(node.calledBy, 1, w) EXCEPT !.stack = below]
                           ELSE [w EXCEPT !.stack = below]
                    ELSE LET dependent == node.usedBy[top.i]
                             advanced == Append(below, [top EXCEPT !.i = Advance(@)])
                         IN  IF dependent \in w.visited THEN [w EXCEPT !.stack = advanced]
                             ELSE IF top.depth = 0
                               THEN [w EXCEPT !.direct = Append(@, dependent),
                                              !.stack = Append(advanced, Call(dependent, 1))]
                             ELSE [w EXCEPT !.transitive = Append(@, dependent),
                                            !.stack = Append(advanced,
                                                             Call(dependent, top.depth + 1))]

\* findClusters after step 1, before the first traverse(ep)
ClustersStart ==
  [mode |-> "clusters", done |-> FALSE, phase |-> "reach", k |-> 1, stack |-> <<>>,
   visited |-> {}, reachable |-> {}, building |-> FALSE, assigned |-> {},
   cluster |-> <<>>, queue |-> <<>>, clusters |-> <<>>]

\* step 2: the next traverse(ep), call, loop iteration or return of traverse
ReachStep(nodes, eps, w) ==
  IF w.stack = <<>>
    THEN IF w.k > Len(eps) THEN [w EXCEPT !.phase = "group", !.k = 1]
         ELSE [w EXCEPT !.k = @ + 1, !.visited = {}, !.stack = <<Call(eps[w.k], 0)>>]
  ELSE LET top == Top(w.stack)
           below == Below(w.stack)
       IN  IF top.i = 0
             THEN IF top.node \in w.visited THEN [w EXCEPT !.stack = below]
                  ELSE [w EXCEPT !.visited = @ \cup {top.node},
                                 !.reachable = @ \cup {top.node},
                                 !.stack = IF top.node \in NodePaths(nodes)
                                             THEN Append(below, [top EXCEPT !.i = 1])
                                           ELSE below]
           ELSE IF top.i > Len(UsesOf(nodes, top.node)) THEN [w EXCEPT !.stack = below]
           ELSE LET resolved == resolveImport(nodes, UsesOf(nodes, top.node)[top.i])
                    advanced == Append(below, [top EXCEPT !.i = Advance(@)])
                IN  [w EXCEPT !.stack = IF resolved # Null /\ resolved \in NodePaths(nodes)
                                          THEN Append(advanced, Call(resolved, 0))
                                        ELSE advanced]

\* buildCluster: one iteration of while (queue.length > 0)
ClusterIteration(nodes, isolated, cw) ==
  LET file == Head(cw.queue)
      rest == Tail(cw.queue)
  IN  IF Has(cw.cluster, file) \/ ~Has(isolated, file) THEN [cw EXCEPT !.queue = rest]
      ELSE LET cluster == Append(cw.cluster, file)
               node == NodeAt(nodes, file)
           IN  [cw EXCEPT !.cluster = cluster,
                          !.assigned = @ \cup {file},
                          !.queue = IF file \notin NodePaths(nodes) THEN rest
                                    ELSE PushUsers(node.usedBy, 1, isolated, cluster,
                                           PushUses(nodes, node.uses, 1, isolated, cluster, rest))]

\* steps 3 and 4: the next isolated file, or the next iteration of buildCluster
GroupStep(nodes, w) ==
  LET isolated == IsolatedList(nodes, w.reachable)
  IN  IF w.building
        THEN IF w.queue # <<>> THEN ClusterIteration(nodes, isolated, w)
             ELSE [w EXCEPT !.building = FALSE, !.k = @ + 1,
                            !.clusters =
                               IF Len(w.cluster) > 0
                                 THEN Append(@, [size |-> Len(w.cluster),
                                                 count |-> Len(w.cluster),
                                                 files |-> SortStrings(w.cluster)])
                               ELSE @]
      ELSE IF w.k > Len(isolated) THEN [w EXCEPT !.done = TRUE]
      ELSE IF isolated[w.k] \in w.assigned THEN [w EXCEPT !.k = @ + 1]
      ELSE [w EXCEPT !.building = TRUE, !.cluster = <<>>, !.queue = <<isolated[w.k]>>]

\* eps: the entry points step 1 collected
ClustersStep(nodes, eps, w) ==
  IF w.phase = "reach" THEN ReachStep(nodes, eps, w) ELSE GroupStep(nodes, w)

\* usedby main after steps 1 and 2, before the loops of step 3
BuildStart(docs) ==
  [mode |-> "build", done |-> FALSE, di |-> 1, fi |-> 1, ui |-> 1,
   lookups |-> Lookups(docs, BuildFileIndex(docs, FilePositions(docs, 1, 1), EmptyMap),
                       DefaultAliases),
   st |-> [docs |-> ClearAllUsedBy(docs), linksCreated |-> 0, unresolved |-> <<>>,
           threw |-> FALSE]]

\* step 3: the next record, file or reference of the three nested loops
BuildStep(w) ==
  IF w.st.threw \/ w.di > Len(w.st.docs) THEN [w EXCEPT !.done = TRUE]
  ELSE IF w.fi > Len(w.st.docs[w.di].files) THEN [w EXCEPT !.di = Advance(@), !.fi = 1, !.ui = 1]
  ELSE IF w.ui > Len(w.st.docs[w.di].files[w.fi].uses)
    THEN [w EXCEPT !.fi = Advance(@), !.ui = 1]
  ELSE [w EXCEPT !.st = UseStepFrom(w.st, w.st.docs[w.di].files[w.fi].uses[w.ui],
                                    w.lookups[<<w.di, w.fi, w.ui>>]),
                 !.ui = Advance(@)]

\* the node maps walked: the scenarios and every one-entry record set
WalkRecords == Scenarios \cup RecordsWithin(Layout, 1)

InitWalk ==
  /\ docMetas \in WalkRecords
  /\ loaded = <<>>
  /\ op = "init"
  /\ status = "ok"
  /\ written = <<>>
  /\ unresolved = <<>>
  /\ linksCreated = 0
  /\ analysis = NoAnalysis
  /\ blast = NoBlast
  /\ edits = 0
  /\ request = NoRequest
  /\ resolution = Pending
  /\ fault = Completes
  /\ \/ walk \in {CyclesStart, ClustersStart, BuildStart(docMetas)} /\ target = <<>>
     \/ walk = BlastStart /\ target \in TargetChoices

WalkFrame ==
  /\ ~walk.done
  /\ UNCHANGED <<docMetas, loaded, op, status, written, unresolved, linksCreated,
                 analysis, target, blast, edits, request, resolution, fault>>

StepCycles ==
  /\ walk.mode = "cycles" /\ WalkFrame
  /\ \E nodes \in {buildGraph(docMetas)} :
       \E next \in {CyclesStep(nodes, walk)} : walk' = next

StepClusters ==
  /\ walk.mode = "clusters" /\ WalkFrame
  /\ \E nodes \in {buildGraph(docMetas)} :
       \E eps \in {ClusterEntryPoints(nodes, EntryPointPatterns)} :
          \E next \in {ClustersStep(nodes, eps, walk)} : walk' = next

StepBlast ==
  /\ walk.mode = "blast" /\ WalkFrame
  /\ \E nodes \in {buildGraph(docMetas)} :
       \E next \in {BlastStep(nodes, target, walk)} : walk' = next

StepBuild ==
  /\ walk.mode = "build" /\ WalkFrame
  /\ \E next \in {BuildStep(walk)} : walk' = next

NextWalk == StepCycles \/ StepClusters \/ StepBlast \/ StepBuild

\* the interpreter runs a started synchronous call to its end: a step that can
\* be taken is taken
SpecWalk == InitWalk /\ [][NextWalk]_vars /\ WF_vars(NextWalk)

-----------------------------------------------------------------------------
(* Properties of the usedby builder                                        *)

Range(list) == {list[i] : i \in 1..Len(list)}

PositionsOf(docs) == Range(FilePositions(docs, 1, 1))

FileIndexOf(docs) == BuildFileIndex(docs, FilePositions(docs, 1, 1), EmptyMap)

\* the usedBy list of every file, by position
UsedByLists(docs) ==
  [di \in 1..Len(docs) |-> [fi \in 1..Len(docs[di].files) |-> docs[di].files[fi].usedBy]]

\* reference ui of the file at position p lands on the index entry
LandsOn(docs, fileIndex, p, ui, entry) ==
  LET r == ResolveToEntry(fileIndex, docs[p[1]].files[p[2]].uses[ui],
                          docs[p[1]].folderPath, DefaultAliases)
  IN  r # Null /\ r = entry

\* the paths of the files holding a reference that lands on the index entry
UsersOf(docs, fileIndex, entry) ==
  { FilePath(docs, p[1], p[2]) :
      p \in { q \in PositionsOf(docs) :
                \E ui \in 1..Len(docs[q[1]].files[q[2]].uses) :
                   LandsOn(docs, fileIndex, q, ui, entry) } }

UsedByIsDerived(docs, fileIndex) ==
  \A p \in PositionsOf(docs) :
     Range(docs[p[1]].files[p[2]].usedBy) = UsersOf(docs, fileIndex, p)

\* C1: immediately after a build, for every node M, M.usedBy holds the path of
\* N exactly when some reference in N.uses resolves (resolver, then index
\* lookup) to M, whatever usedBy lists the records held before the build.
C1_UsedByIsExactlyTheResolvedUsers ==
  op = "usedby" => UsedByIsDerived(docMetas, FileIndexOf(docMetas))

\* a build has run that both dropped an entry the loaded records held and
\* created a link
C1_StaleEntryDropped ==
  /\ op = "usedby"
  /\ linksCreated > 0
  /\ \E p \in PositionsOf(docMetas) :
        \E x \in Range(loaded[p[1]].files[p[2]].usedBy) :
           x \notin Range(docMetas[p[1]].files[p[2]].usedBy)

\* C2: a build run on the records a build has just written leaves every
\* usedBy list as it is: the same members in the same order.
C2_SecondBuildChangesNoUsedBy ==
  op = "usedby" =>
    \A run \in {RunUsedBy(docMetas, DefaultAliases)} :
       ~run.threw /\ UsedByLists(run.docs) = UsedByLists(docMetas)

\* a build has written a usedBy list of two members, where order matters
C2_BuiltListOfTwo ==
  /\ op = "usedby"
  /\ \E p \in PositionsOf(docMetas) : Len(docMetas[p[1]].files[p[2]].usedBy) >= 2

\* uses without the references that land on no indexed node
RECURSIVE LandingUses(_, _, _, _)
LandingUses(docs, fileIndex, p, ui) ==
  IF ui > Len(docs[p[1]].files[p[2]].uses) THEN <<>>
  ELSE (IF ResolveToEntry(fileIndex, docs[p[1]].files[p[2]].uses[ui],
                          docs[p[1]].folderPath, DefaultAliases) # Null
          THEN << docs[p[1]].files[p[2]].uses[ui] >> ELSE <<>>)
         \o LandingUses(docs, fileIndex, p, ui + 1)

WithoutUnresolved(docs, fileIndex) ==
  [di \in 1..Len(docs) |->
     [docs[di] EXCEPT !.files =
        [fi \in 1..Len(docs[di].files) |->
           [docs[di].files[fi] EXCEPT !.uses = LandingUses(docs, fileIndex, <<di, fi>>, 1)]]]]

\* C3: a build over records holding references that land on no indexed node
\* ends without an exception, writes every loaded record, and leaves every
\* usedBy list as a build over the same records without those references would.
C3_UnresolvedReferencesDoNotAbort ==
  op = "usedby" =>
    /\ status = "ok"
    /\ written = [di \in 1..Len(loaded) |-> loaded[di].folderPath]
    /\ \A clean \in {RunUsedBy(WithoutUnresolved(loaded, FileIndexOf(loaded)),
                               DefaultAliases)} :
          UsedByLists(docMetas) = UsedByLists(clean.docs)

\* a build has run over records holding a reference that landed nowhere,
\* next to one that created a link
C3_BuildWithUnresolved ==
  /\ op = "usedby"
  /\ Len(unresolved) > 0
  /\ linksCreated > 0

\* C4: after a build, every reference of every node that lands on no indexed
\* node, those the resolver returns absent for included, has an entry in the
\* unresolved report whose list of referencing nodes holds the node's path.
C4_EveryNonLandingReferenceIsReported ==
  op = "usedby" =>
    \A fileIndex \in {FileIndexOf(docMetas)} :
      \A p \in PositionsOf(docMetas) :
        \A ui \in 1..Len(docMetas[p[1]].files[p[2]].uses) :
           ResolveToEntry(fileIndex, docMetas[p[1]].files[p[2]].uses[ui],
                          docMetas[p[1]].folderPath, DefaultAliases) = Null
             => \E i \in 1..Len(unresolved) :
                   /\ unresolved[i].key = docMetas[p[1]].files[p[2]].uses[ui]
                   /\ Has(unresolved[i].sources, FilePath(docMetas, p[1], p[2]))

-----------------------------------------------------------------------------
(* Properties of cycle detection                                           *)

\* the records are what a build leaves on disk
IsBuilt(docs) ==
  \A run \in {RunUsedBy(docs, DefaultAliases)} :
     ~run.threw /\ UsedByLists(run.docs) = UsedByLists(docs)

\* all sequences of distinct members of S, the empty one included
RECURSIVE DistinctSeqs(_)
DistinctSeqs(S) ==
  {<<>>} \cup UNION { { <<x>> \o q : q \in DistinctSeqs(S \ {x}) } : x \in S }

\* file positions v[1] -> v[2] -> ... -> v[Len(v)] -> v[1], each step a
\* reference the builder resolves
IsResolvedCycle(docs, fileIndex, v) ==
  /\ Len(v) >= 1
  /\ \A i \in 1..Len(v) :
        \E ui \in 1..Len(docs[v[i][1]].files[v[i][2]].uses) :
           LandsOn(docs, fileIndex, v[i], ui, v[(i % Len(v)) + 1])

\* the closed path sequence c walks the members of paths in order, from some
\* rotation of it
InRotationClass(c, paths) ==
  /\ Len(c) = Len(paths) + 1
  /\ c[Len(c)] = c[1]
  /\ \E k \in 0..(Len(paths) - 1) :
        \A i \in 1..Len(paths) : c[i] = paths[((i - 1 + k) % Len(paths)) + 1]

EveryResolvedCycleReported(docs, fileIndex, cycles) ==
  \A v \in DistinctSeqs(PositionsOf(docs)) :
     IsResolvedCycle(docs, fileIndex, v) =>
       \E n \in 1..Len(cycles) :
          InRotationClass(cycles[n], [i \in 1..Len(v) |-> FilePath(docs, v[i][1], v[i][2])])

\* C5: whenever the references the build resolves form a directed cycle among
\* indexed nodes, cycle analysis of the built graph reports a cycle of its
\* rotation class; for a uses ./b, b uses ./c, c uses ./a it reports exactly
\* one cycle, a rotation of [/src/a.js, /src/b.js, /src/c.js, /src/a.js].
C5_ResolvedCyclesAreReported ==
  (op = "graph" /\ IsBuilt(docMetas)) =>
    /\ EveryResolvedCycleReported(docMetas, FileIndexOf(docMetas), analysis.cycles)
    /\ docMetas = ScenarioCycle =>
         /\ Len(analysis.cycles) = 1
         /\ InRotationClass(analysis.cycles[1], <<PathA, PathB, PathC>>)

\* dep names the node at path q for the cycle detector: q is the first key,
\* in map order, that contains dep
DetectorResolves(nodes, dep, q) ==
  \E j \in 1..Len(nodes) :
     /\ nodes[j].path = q
     /\ Includes(q, dep)
     /\ \A l \in 1..(j - 1) : ~Includes(nodes[l].path, dep)

CycleIsSound(nodes, c) ==
  /\ Len(c) >= 2
  /\ c[1] = c[Len(c)]
  /\ \A i \in 1..Len(c) : c[i] \in NodePaths(nodes)
  /\ \A i \in 1..(Len(c) - 1) :
        \E u \in Range(NodeAt(nodes, c[i]).uses) : DetectorResolves(nodes, u, c[i + 1])

\* C6: every cycle that cycle detection returns is a sequence v0..vk with
\* k >= 1 and v0 = vk, every member is a node of the map, and each member holds
\* a reference that the detector's own resolution takes to the next member.
C6_ReportedCyclesAreSound ==
  op = "graph" =>
    \A nodes \in {buildGraph(docMetas)} :
       \A n \in 1..Len(analysis.cycles) : CycleIsSound(nodes, analysis.cycles[n])

\* a graph run has reported a cycle through two different nodes
C6_TwoNodeCycleReported ==
  /\ op = "graph"
  /\ \E n \in 1..Len(analysis.cycles) :
        /\ Len(analysis.cycles[n]) >= 3
        /\ analysis.cycles[n][1] # analysis.cycles[n][2]

-----------------------------------------------------------------------------
(* Properties of orphan and cluster detection                              *)

\* some reference of the node resolves (resolver, then index lookup) to an
\* indexed node
HasResolvingReference(docs, fileIndex, p) ==
  \E ui \in 1..Len(docs[p[1]].files[p[2]].uses) :
     ResolveToEntry(fileIndex, docs[p[1]].files[p[2]].uses[ui],
                    docs[p[1]].folderPath, DefaultAliases) # Null

\* some reference of the node begins with '.', '@/' or '~/'
HasInternalLookingReference(uses) ==
  \E u \in Range(uses) :
     \/ (Len(u) >= 1 /\ u[1] = ".")
     \/ (Len(u) >= 2 /\ u[1] \in {"@", "~"} /\ u[2] = "/")

IsSortedByPath(list) ==
  \A i \in 1..Len(list) : \A j \in (i + 1)..Len(list) : StrLess(list[i], list[j])

OrphansAreTheResolvingUnused(docs, fileIndex, orphans) ==
  /\ Range(orphans) =
       { FilePath(docs, p[1], p[2]) :
           p \in { q \in PositionsOf(docs) :
                     /\ Len(docs[q[1]].files[q[2]].usedBy) = 0
                     /\ ~SomePatternTests(EntryPointPatterns, FilePath(docs, q[1], q[2]))
                     /\ HasResolvingReference(docs, fileIndex, q)
                     /\ Len(docs[q[1]].files[q[2]].calledBy) = 0 } }
  /\ IsSortedByPath(orphans)

\* C7 as stated: orphan detection returns exactly the nodes with empty usedBy
\* that are no entry point, hold a reference resolving to an indexed node and
\* have no calledBy, sorted by path; a node none of whose references resolves
\* internally is never returned.
C7_OrphansHoldAResolvingReference ==
  op = "graph" =>
    OrphansAreTheResolvingUnused(docMetas, FileIndexOf(docMetas), analysis.orphans)

OrphansAreTheInternalLookingUnused(nodes, orphans) ==
  /\ Range(orphans) =
       { nodes[i].path :
           i \in { j \in 1..Len(nodes) :
                     /\ Len(nodes[j].usedBy) = 0
                     /\ ~SomePatternTests(EntryPointPatterns, nodes[j].path)
                     /\ HasInternalLookingReference(nodes[j].uses)
                     /\ Len(nodes[j].calledBy) = 0 } }
  /\ IsSortedByPath(orphans)

\* C7 amended: orphan detection returns exactly the nodes with empty usedBy
\* whose path matches no entry-point pattern, that hold a reference beginning
\* with '.', '@/' or '~/' (whether or not it resolves) and have no calledBy,
\* sorted by path.
C7_OrphansHoldAnInternalLookingReference ==
  op = "graph" =>
    \A nodes \in {buildGraph(docMetas)} :
       OrphansAreTheInternalLookingUnused(nodes, analysis.orphans)

\* a graph run has returned two orphans, one of them with no resolving
\* reference
C7_OrphanWithoutResolvingReference ==
  /\ op = "graph"
  /\ Len(analysis.orphans) >= 2
  /\ \E p \in PositionsOf(docMetas) :
        /\ Has(analysis.orphans, FilePath(docMetas, p[1], p[2]))
        /\ ~HasResolvingReference(docMetas, FileIndexOf(docMetas), p)

ClustersPartition(isolated, clusters) ==
  /\ \A i \in 1..Len(clusters) : \A j \in 1..Len(clusters) :
        i # j => Range(clusters[i].files) \cap Range(clusters[j].files) = {}
  /\ UNION { Range(clusters[i].files) : i \in 1..Len(clusters) } = isolated
  /\ \A i \in 1..Len(clusters) :
        clusters[i].size = Cardinality(Range(clusters[i].files))

\* C8: the clusters cluster detection returns are pairwise disjoint, their
\* union is exactly the set of nodes not forward-reachable from any entry
\* point, and each cluster's size is its member count.
C8_ClustersPartitionTheIsolated ==
  op = "graph" =>
    \A nodes \in {buildGraph(docMetas)} :
       ClustersPartition(Range(IsolatedOf(nodes, EntryPointPatterns)), analysis.clusters)

-----------------------------------------------------------------------------
(* Properties of the blast radius                                          *)

Found(b) == "file" \in DOMAIN b

\* C9: for a target that is found, direct, transitive and httpCallers are
\* pairwise disjoint, none holds the target, and total is the sum of their
\* lengths.
C9_BlastListsAreDistinct ==
  (op = "blast" /\ Found(blast)) =>
    /\ Range(blast.direct) \cap Range(blast.transitive) = {}
    /\ Range(blast.direct) \cap Range(blast.httpCallers) = {}
    /\ Range(blast.transitive) \cap Range(blast.httpCallers) = {}
    /\ blast.file \notin
         Range(blast.direct) \cup Range(blast.transitive) \cup Range(blast.httpCallers)
    /\ blast.total = Len(blast.direct) + Len(blast.transitive) + Len(blast.httpCallers)

\* a blast radius with a direct dependent, a transitive one and an HTTP caller
\* that is also a transitive dependent
C9_CallerAlsoTransitive ==
  /\ op = "blast"
  /\ Found(blast)
  /\ Len(blast.direct) > 0
  /\ Len(blast.transitive) > 0
  /\ \E nodes \in {buildGraph(docMetas)} :
        \E c \in Range(NodeAt(nodes, blast.file).calledBy) : Has(blast.transitive, c)

\* the usedBy entries of the members of S that are nodes
UsersOfAll(nodes, S) ==
  UNION { Range(NodeAt(nodes, x).usedBy) : x \in S \cap NodePaths(nodes) }

\* everything reachable from S along usedBy
RECURSIVE UsedByClosure(_, _)
UsedByClosure(nodes, S) ==
  IF UsersOfAll(nodes, S) \subseteq S THEN S
  ELSE UsedByClosure(nodes, S \cup UsersOfAll(nodes, S))

ClassifiedByDistance(nodes, b) ==
  LET atOne == Range(NodeAt(nodes, b.file).usedBy) \ {b.file}
  IN  /\ Range(b.direct) = atOne
      /\ Range(b.transitive) = (UsedByClosure(nodes, {b.file}) \ atOne) \ {b.file}

\* C10: for a target that is found, direct is exactly the target's own usedBy
\* entries other than itself, and transitive is exactly the nodes whose
\* shortest usedBy-distance from the target is 2 or more.
C10_BlastClassifiesByDistance ==
  (op = "blast" /\ Found(blast)) =>
    \A nodes \in {buildGraph(docMetas)} : ClassifiedByDistance(nodes, blast)

\* C11: for a target that is found, direct and transitive together are exactly
\* the paths reachable from the target by following usedBy entries one or more
\* times, the target excluded, cycles among the usedBy edges included; for a
\* used by b used by c the result is direct = [b], transitive = [c], total = 2.
C11_BlastIsTheBackwardClosure ==
  (op = "blast" /\ Found(blast)) =>
    /\ \A nodes \in {buildGraph(docMetas)} :
          Range(blast.direct) \cup Range(blast.transitive)
            = UsedByClosure(nodes, {blast.file}) \ {blast.file}
    /\ (docMetas = ScenarioChain /\ target = PathA) =>
          /\ blast.direct = <<PathB>>
          /\ blast.transitive = <<PathC>>
          /\ blast.total = 2

\* the blast radius of a in the chain a used by b used by c has been computed
C11_ChainBlastComputed ==
  /\ op = "blast"
  /\ docMetas = ScenarioChain
  /\ target = PathA
  /\ Found(blast)
  /\ Len(blast.transitive) = 1

\* the target with a leading '/' put in front when it has none
Canonical(t) == IF Len(t) >= 1 /\ t[1] = "/" THEN t ELSE <<"/">> \o t

\* C12: a blast-radius query whose target is no node's canonical path and is
\* contained in no node's path ends without an exception and returns only a
\* not-found message naming the target, with no direct, transitive or total
\* field; a target that is a node's canonical path always selects that node.
C12_UnmatchedTargetIsNotFound ==
  op = "blast" =>
    \A nodes \in {buildGraph(docMetas)} :
       /\ status = "ok"
       /\ (\A i \in 1..Len(nodes) :
              nodes[i].path # Canonical(target) /\ ~Includes(nodes[i].path, target))
            => /\ DOMAIN blast = {"error"}
               /\ Includes(blast.error, target)
       /\ (\E i \in 1..Len(nodes) : nodes[i].path = Canonical(target))
            => /\ Found(blast)
               /\ blast.file = Canonical(target)

\* a query for a file that is in no record has been answered
C12_NotFoundReturned ==
  /\ op = "blast"
  /\ "error" \in DOMAIN blast
  /\ target \notin {PathA, PathD}

-----------------------------------------------------------------------------
(* Properties of the commands taken together                               *)

\* C13: whenever an analysis (cycles, orphans, entry points, clusters, blast
\* radius) has run, the records it loaded are what a completed build leaves:
\* every usedBy it read was rebuilt from the current uses.
C13_AnalyzerReadsRebuiltUsedBy ==
  op \in {"graph", "blast"} => IsBuilt(loaded)

\* the records with every usedBy list emptied and every updated timestamp
\* set to one value
WithoutDerived(docs) ==
  [di \in 1..Len(docs) |->
     [docs[di] EXCEPT !.updated = Earlier,
                      !.files = [fi \in 1..Len(docs[di].files) |->
                                   [docs[di].files[fi] EXCEPT !.usedBy = <<>>]]]]

\* C15: a build changes nothing in any record except each file's usedBy list
\* and the record's updated timestamp: folder purpose, the file entries and
\* their order, each file's purpose, exports, uses, calls and calledBy, and
\* the history are as they were loaded.
C15_BuildChangesOnlyUsedByAndUpdated ==
  op = "usedby" => WithoutDerived(docMetas) = WithoutDerived(loaded)

\* a build has rewritten a usedBy list in records that hold a calledBy list
C15_BuildOverRecordsWithCalledBy ==
  /\ op = "usedby"
  /\ UsedByLists(docMetas) # UsedByLists(loaded)
  /\ \E p \in PositionsOf(loaded) : Len(loaded[p[1]].files[p[2]].calledBy) > 0
-----------------------------------------------------------------------------
(* Properties of the record writers                                        *)

\* the stored usedBy values, as (folder, file name, usedBy) triples
UsedByTriples(docs) ==
  { <<docs[di].folderPath, docs[di].files[fi].name, docs[di].files[fi].usedBy>> :
      <<di, fi>> \in {p \in (1..Len(docs)) \X (1..4) : p[2] <= Len(docs[p[1]].files)} }

\* the documented files, as (folder, file name) pairs
EntryKeys(docs) == { <<t[1], t[2]>> : t \in UsedByTriples(docs) }

NonBuilderOps == {"graph", "blast", "update", "updateFolder", "sync", "calls"}

\* C14 as stated: every operation other than the builder leaves every stored
\* usedBy value, and the set of files that have one, exactly as it found them
C14_OnlyTheBuilderCreatesOrChangesUsedBy ==
  op \in NonBuilderOps => UsedByTriples(docMetas) = UsedByTriples(loaded)

\* C14 amended: an operation other than the builder never changes the usedBy
\* of a file entry it keeps; update and sync create the entry of a newly
\* documented file with an empty usedBy, sync deletes the entries of files
\* that are gone, and graph, update of a folder and calls keep every entry
C14_NonBuildersKeepExistingUsedBy ==
  op \in NonBuilderOps =>
    /\ \A t \in UsedByTriples(docMetas) :
          IF <<t[1], t[2]>> \in EntryKeys(loaded) THEN t \in UsedByTriples(loaded)
          ELSE t[3] = <<>> /\ op \in {"update", "sync"}
    /\ EntryKeys(loaded) \subseteq EntryKeys(docMetas) \/ op = "sync"

\* a sync that documented a new file next to an entry whose usedBy is not empty
C14_SyncAddedNextToUsedFile ==
  /\ op = "sync"
  /\ EntryKeys(docMetas) \ EntryKeys(loaded) # {}
  /\ \E t \in UsedByTriples(docMetas) \cap UsedByTriples(loaded) : t[3] # <<>>
-----------------------------------------------------------------------------
(* Properties of resolvePathAlias                                          *)

\* the names left of a segment list, read from its end: a '..' cancels the
\* nearest name before it that is not already cancelled, '' and '.' are skipped
RECURSIVE WalkBack(_, _)
WalkBack(segs, skip) ==
  IF segs = <<>> THEN <<>>
  ELSE LET last == segs[Len(segs)]
           init == DropLast(segs, 1)
       IN  IF last = <<>> \/ last = <<".">> THEN WalkBack(init, skip)
           ELSE IF last = <<".", ".">> THEN WalkBack(init, skip + 1)
           ELSE IF skip > 0 THEN WalkBack(init, skip - 1)
           ELSE Append(WalkBack(init, 0), last)

\* the location a relative reference denotes, seen from a project-relative directory
NormalizedJoin(fromRelative, importPath) ==
  LET names == WalkBack(SplitSlash(fromRelative) \o SplitSlash(importPath), 0)
  IN  IF names = <<>> THEN <<"/">>
      ELSE <<"/">> \o JoinSlash(names)
             \o (IF importPath[Len(importPath)] = "/" THEN <<"/">> ELSE <<>>)

Answered == resolution # Pending

\* C16: a reference that begins with '.' always resolves, to the normalized
\* join of the directory's project-relative location with the reference; the
\* result begins with '/' and has no '.' or '..' segment, however many '..'
\* the reference holds
C16_RelativeReferenceAlwaysResolves ==
  Answered /\ StartsWith(request.importPath, <<".">>) =>
    /\ resolution # Null
    /\ resolution = NormalizedJoin(FromRelative(RootPath, request.fromDir),
                                   request.importPath)
    /\ Head(resolution) = "/"
    /\ \A sg \in Range(SplitSlash(resolution)) : sg # <<".">> /\ sg # <<".", ".">>

\* a reference with more '..' segments than the directory has ancestors
C16_ClimbedPastTheRoot ==
  /\ Answered
  /\ request.importPath = <<".", ".", "/", ".", ".", "/", ".", ".", "/", "a">>
  /\ request.fromDir = <<"/", "p", "/", "s", "r", "c">>
  /\ resolution = <<"/", "a">>
\* a pattern ending in the two characters '/*'
IsWildcardPattern(pattern) ==
  Len(pattern) >= 2 /\ pattern[Len(pattern) - 1] = "/" /\ pattern[Len(pattern)] = "*"

\* a pattern or target without its '/*' suffix, when it has one
WithoutStar(s) == IF IsWildcardPattern(s) THEN SubSeq(s, 1, Len(s) - 2) ELSE s

\* whether an alias entry matches a reference
EntryMatches(entry, importPath) ==
  IF IsWildcardPattern(entry.pattern)
    THEN StartsWith(importPath, WithoutStar(entry.pattern) \o <<"/">>)
  ELSE importPath = entry.pattern

\* the matching entries of the table, by position
MatchingEntries(aliases, importPath) ==
  {i \in 1..Len(aliases) : EntryMatches(aliases[i], importPath)}

FirstMatchingEntry(aliases, importPath) ==
  CHOOSE i \in MatchingEntries(aliases, importPath) :
    \A j \in MatchingEntries(aliases, importPath) : i <= j

\* what a matching wildcard entry yields
WildcardYield(entry, importPath) ==
  WithoutStar(entry.targets[1]) \o <<"/">>
    \o SubSeq(importPath, Len(entry.pattern), Len(importPath))

\* C17 as stated: a non-relative reference gets the result of the first
\* matching entry, a wildcard entry yielding the first target's base, '/' and
\* the remainder, an exact entry yielding its first target verbatim; without
\* a matching entry the result is absent
C17_ExactEntryYieldsTargetVerbatim ==
  Answered /\ ~StartsWith(request.importPath, <<".">>) =>
    IF MatchingEntries(request.aliases, request.importPath) = {} THEN resolution = Null
    ELSE \A entry \in {request.aliases[FirstMatchingEntry(request.aliases, request.importPath)]} :
           resolution = IF IsWildcardPattern(entry.pattern)
                          THEN WildcardYield(entry, request.importPath)
                        ELSE entry.targets[1]

\* C17 amended: as above, but an exact entry yields its first target without
\* a trailing '/*'
C17_FirstMatchingEntryDecides ==
  Answered /\ ~StartsWith(request.importPath, <<".">>) =>
    IF MatchingEntries(request.aliases, request.importPath) = {} THEN resolution = Null
    ELSE \A entry \in {request.aliases[FirstMatchingEntry(request.aliases, request.importPath)]} :
           resolution = IF IsWildcardPattern(entry.pattern)
                          THEN WildcardYield(entry, request.importPath)
                        ELSE WithoutStar(entry.targets[1])

\* a reference matched by a wildcard entry and by a later exact entry
C17_EarlierWildcardWins ==
  /\ Answered
  /\ request.aliases = OverlapAliases
  /\ request.importPath = <<"l", "i", "b", "/", "a">>
  /\ Cardinality(MatchingEntries(request.aliases, request.importPath)) = 2
  /\ resolution = <<"/", "x", "/", "a">>
-----------------------------------------------------------------------------
(* Properties of cycle detection                                           *)

\* the members of a closed cycle without the repeated endpoint
OpenPart(c) == SubSeq(c, 1, Len(c) - 1)

\* C18: every returned cycle begins and ends with the lexicographically
\* smallest of its members, its members other than the repeated endpoint are
\* pairwise distinct, and no two returned cycles are rotations of one another
C18_CyclesAreCanonicalAndUnique ==
  op = "graph" =>
    /\ \A n \in 1..Len(analysis.cycles) :
          \A c \in {analysis.cycles[n]} :
             /\ Len(c) >= 2
             /\ c[1] = c[Len(c)]
             /\ \A i \in 1..Len(c) : ~StrLess(c[i], c[1])
             /\ \A i, j \in 1..(Len(c) - 1) : i # j => c[i] # c[j]
    /\ \A n, m \in 1..Len(analysis.cycles) :
          n # m => ~InRotationClass(analysis.cycles[n], OpenPart(analysis.cycles[m]))

\* a cycle found on the path a, b, d is reported from d, its smallest member,
\* and the later sweeps from b and d add no rotation of it
C18_RotatedToSmallestMember ==
  /\ op = "graph"
  /\ docMetas = ScenarioComplete
  /\ Has(analysis.cycles, <<PathD, PathA, PathB, PathD>>)
  /\ ~Has(analysis.cycles, <<PathA, PathB, PathD, PathA>>)

\* the node at path q is the one the detector follows a reference to from p
DetectorEdge(nodes, p, q) ==
  \E u \in Range(NodeAt(nodes, p).uses) : DetectorResolves(nodes, u, q)

\* how many returned cycles walk the members of v in order, from some rotation
TimesReported(cycles, v) ==
  Cardinality({n \in 1..Len(cycles) : InRotationClass(cycles[n], v)})

\* C19: every simple directed cycle of the uses edges the detector resolves
\* appears in the result, up to rotation, once and only once
C19_EverySimpleCycleReportedOnce ==
  op = "graph" =>
    \A nodes \in {buildGraph(docMetas)} :
       \A v \in DistinctSeqs(NodePaths(nodes)) :
          (Len(v) >= 1 /\ \A i \in 1..Len(v) : DetectorEdge(nodes, v[i], v[(i % Len(v)) + 1]))
            => TimesReported(analysis.cycles, v) = 1
-----------------------------------------------------------------------------
(* Properties of cluster detection and HTTP callers                        *)

\* the nodes some reported cluster holds
ClusterMembers(clusters) == UNION { Range(clusters[i].files) : i \in 1..Len(clusters) }

\* C20: a node with a non-empty calledBy is an entry point of cluster
\* detection whatever its usedBy: neither it nor any node forward-reachable
\* from it via uses is a member of a reported cluster
C20_CalledNodesAreNeverClustered ==
  op = "graph" =>
    \A nodes \in {buildGraph(docMetas)} :
       \A k \in 1..Len(nodes) :
          Len(nodes[k].calledBy) > 0 =>
            traverse(nodes, nodes[k].path, {}) \cap ClusterMembers(analysis.clusters) = {}
-----------------------------------------------------------------------------
(* Properties of the builder under failing writes and unreadable records   *)

\* the folder paths of the records the last usedby run loaded, in load order
LoadedFolders == [j \in 1..Len(ReadAll(loaded)) |-> ReadAll(loaded)[j].folderPath]

\* C21: a failure while writing one folder's record in step 5 is swallowed:
\* the run neither aborts nor raises, and every remaining record is still
\* written.
C21_WriteFailureIsSwallowed ==
  (op = "usedby" /\ fault.kind = "writeFails")
    => /\ status = "ok"
       /\ \A j \in 1..Len(LoadedFolders) :
            j # fault.at => IndexOf(written, LoadedFolders[j]) # 0

\* a write failed on a record that is not the last one: the run threw and the
\* records after it still hold what they held before the run
C21_LaterRecordsLeftUnwritten ==
  /\ op = "usedby" /\ fault.kind = "writeFails"
  /\ fault.at < Len(LoadedFolders)
  /\ status = "threw"
  /\ \A i \in 1..Len(docMetas) :
       IndexOf(LoadedPositions(loaded), i) >= fault.at => docMetas[i] = loaded[i]

\* the records a complete run over the loaded records would have written
FinalDocs == RunUsedBy(ReadAll(loaded), DefaultAliases).docs

\* the loaded record number of the record file at position i of the disk
\* (0: the file was not loaded)
LoadNumber(i) == IndexOf(LoadedPositions(loaded), i)

\* a record whose usedBy lists were all reset and none repopulated, although
\* the finished build gives it a user
ResetNotRepopulated(doc, final) ==
  /\ Parses(doc)
  /\ \A k \in 1..Len(doc.files) : doc.files[k].usedBy = <<>>
  /\ \E k \in 1..Len(final.files) : final.files[k].usedBy # <<>>
  /\ doc # final

\* C22 (as stated): when the run is interrupted during step 5, every record
\* on disk is either completely written with its final usedBy or still holds
\* its pre-build contents.
C22_EveryRecordFinalOrPreBuild ==
  (op = "usedby" /\ status = "killed")
    => \A final \in {FinalDocs} : \A i \in 1..Len(docMetas) :
         \/ docMetas[i] = loaded[i]
         \/ LoadNumber(i) # 0 /\ docMetas[i] = final[LoadNumber(i)]

\* C22 (amended): every usedBy list is computed and sorted before the first
\* write, and the records are written one at a time in load order.  When the
\* run is interrupted during step 5, the records before the interrupted write
\* are completely written with their final usedBy, the records after it hold
\* their pre-build contents, and the record whose write was interrupted holds
\* its pre-build contents or is left truncated; no readable record has its
\* usedBy reset but not repopulated, and the written records are a prefix of
\* the load order.
C22_InterruptedPersistLeavesPrefix ==
  (op = "usedby" /\ status = "killed")
    => \A final \in {FinalDocs} :
         /\ \A i \in 1..Len(docMetas) : \A j \in {LoadNumber(i)} :
              /\ j = 0 => docMetas[i] = loaded[i]
              /\ (j # 0 /\ j <= Len(written)) => docMetas[i] = final[j]
              /\ (j > Len(written) + 1) => docMetas[i] = loaded[i]
              /\ (j = Len(written) + 1) =>
                    \/ docMetas[i] = loaded[i]
                    \/ ~Parses(docMetas[i])
              /\ (j # 0 /\ Parses(docMetas[i]) /\ docMetas[i] # loaded[i])
                    => ~ResetNotRepopulated(docMetas[i], final[j])
         /\ \A j \in 1..Len(final) : \A k \in 1..Len(final[j].files) :
              IsSortedByPath(final[j].files[k].usedBy)
         /\ Len(written) < Len(LoadedFolders)
         /\ written = SubSeq(LoadedFolders, 1, Len(written))

\* the run was killed while it wrote the second of three records: the first
\* holds its new usedBy, the second is truncated, the third is stale
C22_KilledDuringTheSecondWrite ==
  /\ op = "usedby" /\ status = "killed" /\ fault.kind = "killedDuring"
  /\ Len(LoadedFolders) = 3 /\ Len(written) = 1
  /\ \A final \in {FinalDocs} :
       /\ docMetas[1] = final[1] /\ docMetas[1] # loaded[1]
       /\ ~Parses(docMetas[2])
       /\ docMetas[3] = loaded[3] /\ docMetas[3] # final[3]

\* C23: a record that cannot be read or parsed is skipped for that folder
\* only: the builder leaves its file as it is, and resets, rebuilds and writes
\* every other record, whose usedBy lists are exactly the resolved users among
\* the records that parse; the analyzer loads the nodes of every other record,
\* so a query for a file of a readable record is answered.
C23_UnparsableRecordIsSkippedAlone ==
  /\ (op = "usedby" /\ status = "ok" /\ fault = Completes)
       => /\ \A i \in 1..Len(loaded) :
               ~Parses(loaded[i]) => docMetas[i] = loaded[i]
          /\ written = LoadedFolders
          /\ \A i \in 1..Len(loaded) :
               Parses(loaded[i])
                 => /\ Parses(docMetas[i])
                    /\ IndexOf(written, loaded[i].folderPath) # 0
          /\ \A docs \in {ReadAll(docMetas)} :
               UsedByIsDerived(docs, FileIndexOf(docs))
  /\ op = "blast"
       => \A docs \in {ReadAll(docMetas)} :
            (\E p \in PositionsOf(docs) : FilePath(docs, p[1], p[2]) = target)
              => "file" \in DOMAIN blast /\ blast.file = target

\* a build has completed over three record files of which the first does not
\* parse: the other two were rebuilt and written, and one gained a user
C23_BuiltAroundAnUnparsableRecord ==
  /\ op = "usedby" /\ status = "ok" /\ fault = Completes
  /\ Len(loaded) = 3 /\ ~Parses(loaded[1])
  /\ docMetas[1] = loaded[1]
  /\ Len(written) = 2
  /\ linksCreated > 0
  /\ docMetas[3] # loaded[3]

\* a query was answered from the nodes of a readable record while another
\* record file does not parse
AnsweredBesideAnUnparsableRecord ==
  /\ op = "blast" /\ "file" \in DOMAIN blast
  /\ \E i \in 1..Len(docMetas) : ~Parses(docMetas[i])
-----------------------------------------------------------------------------
(* Properties of the compiled entry-point patterns                         *)

TestedAndMatched == resolution = Matched

LastSegment(p) == SplitSlash(p)[Len(SplitSlash(p))]

\* the characters of a pattern before its first '*'
LiteralPrefix(pattern) ==
  IF Has(pattern, "*") THEN SubSeq(pattern, 1, IndexOf(pattern, "*") - 1) ELSE pattern

\* one pattern segment with at most one '*' against one path segment
SegmentMatches(pseg, seg) ==
  IF ~Has(pseg, "*") THEN pseg = seg
  ELSE LET pre == SubSeq(pseg, 1, IndexOf(pseg, "*") - 1)
           post == SliceFrom(pseg, IndexOf(pseg, "*"))
       IN  /\ Len(seg) >= Len(pre) + Len(post)
           /\ StartsWith(seg, pre)
           /\ EndsWith(seg, post)

\* C24: compiled patterns match on whole path segments only: '**/name.ext'
\* matches a canonical path only if its final segment is exactly name.ext, a
\* pattern not starting with '*' matches only where its first segment begins
\* directly after a '/', and '*' never matches across a '/'.
C24_PatternsMatchWholeSegments ==
  TestedAndMatched
    => \A pattern \in {request.pattern}, filePath \in {request.filePath} :
         /\ (StartsWith(pattern, <<"*", "*", "/">>) /\ ~Has(SliceFrom(pattern, 3), "*")
               /\ ~Has(SliceFrom(pattern, 3), "/"))
              => LastSegment(filePath) = SliceFrom(pattern, 3)
         /\ ~StartsWith(pattern, <<"*">>)
              => Includes(filePath, <<"/">> \o LiteralPrefix(pattern))
         /\ (~StartsWith(pattern, <<"*">>) /\ ~Includes(pattern, <<"*", "*">>))
              => \A ps \in {SplitSlash(pattern)}, segs \in {SplitSlash(filePath)} :
                    /\ Len(segs) > Len(ps)
                    /\ \A k \in 1..Len(ps) :
                         SegmentMatches(ps[k], segs[Len(segs) - Len(ps) + k])

\* '**/main.js' matched a path whose final segment merely ends in main.js
C24_MatchedInsideASegment ==
  /\ TestedAndMatched
  /\ request.pattern = GlobMain
  /\ LastSegment(request.filePath) = <<"d", "o", "m", "a", "i", "n", ".", "j", "s">>
-----------------------------------------------------------------------------
(* Properties relating the builder's resolver to the analyzer's resolvers  *)

\* the references the build maps onto an indexed node: <<position, number>>
BuildTimeEdges(docs) ==
  { <<p, ui>> \in PositionsOf(docs) \X (1..MaxEntries) :
      /\ ui <= Len(docs[p[1]].files[p[2]].uses)
      /\ ResolveToEntry(FileIndexOf(docs), docs[p[1]].files[p[2]].uses[ui],
                        docs[p[1]].folderPath, DefaultAliases) # Null }

\* the same reference is followed by the resolver of cycle detection
FollowedByCycleDetection(docs, e) ==
  FirstMatching(buildGraph(docs), docs[e[1][1]].files[e[1][2]].uses[e[2]]) # Null

\* the same reference is followed by the resolver of cluster detection
FollowedByClusterDetection(docs, e) ==
  resolveImport(buildGraph(docs), docs[e[1][1]].files[e[1][2]].uses[e[2]]) # Null

\* C25: the analyzer's resolvers are looser than the build-time resolver:
\* every reference the build maps onto an indexed node is also resolved to an
\* indexed node by the resolver of cycle detection and by the resolver of
\* cluster detection, so the analyzer never loses a build-time edge.
C25_AnalyzerFollowsEveryBuildTimeEdge ==
  op = "graph"
    => \A e \in BuildTimeEdges(docMetas) :
          /\ FollowedByCycleDetection(docMetas, e)
          /\ FollowedByClusterDetection(docMetas, e)
-----------------------------------------------------------------------------
(* Properties of the usedBy lists a build leaves                           *)

RECURSIVE SumOf(_)
SumOf(list) == IF list = <<>> THEN 0 ELSE Head(list) + SumOf(Tail(list))

\* the number of usedBy entries over all files of all records
TotalUsedBy(docs) ==
  SumOf([di \in 1..Len(docs) |->
           SumOf([fi \in 1..Len(docs[di].files) |-> Len(docs[di].files[fi].usedBy)])])

\* C26: after a build no usedBy list holds a path twice, every usedBy list is
\* in ascending order, and the reported linksCreated is the total number of
\* usedBy entries over all nodes.
C26_UsedByListsAreSetsSortedAndCounted ==
  (op = "usedby" /\ status = "ok")
    => /\ \A p \in PositionsOf(docMetas) :
            \A list \in {docMetas[p[1]].files[p[2]].usedBy} :
               /\ \A i, j \in 1..Len(list) : i # j => list[i] # list[j]
               /\ \A i \in 1..(Len(list) - 1) : StrLess(list[i], list[i + 1])
       /\ linksCreated = TotalUsedBy(docMetas)

\* a build has run over a file that names one target by two references (the
\* same one twice, or two spellings), and the target lists that file once
C26_TargetNamedTwiceListedOnce ==
  /\ op = "usedby" /\ status = "ok"
  /\ \E p, q \in PositionsOf(docMetas) :
       \A uses \in {docMetas[p[1]].files[p[2]].uses} :
          /\ Len(uses) = 2
          /\ LandsOn(docMetas, FileIndexOf(docMetas), p, 1, q)
          /\ LandsOn(docMetas, FileIndexOf(docMetas), p, 2, q)
          /\ docMetas[q[1]].files[q[2]].usedBy = <<FilePath(docMetas, p[1], p[2])>>
  /\ \E p, q \in PositionsOf(docMetas) :
       \A uses \in {docMetas[p[1]].files[p[2]].uses} :
          /\ Len(uses) = 2 /\ uses[1] # uses[2]
          /\ LandsOn(docMetas, FileIndexOf(docMetas), p, 1, q)
          /\ LandsOn(docMetas, FileIndexOf(docMetas), p, 2, q)
-----------------------------------------------------------------------------
(* Termination of the traversals and of the build loop                     *)

WalkDone == walk.done

\* what the finished walk computed is what the function returns
WalkAgreesWithTheFunctions ==
  walk.done =>
    \A nodes \in {buildGraph(docMetas)} :
       /\ walk.mode = "cycles" => walk.cycles = findCycles(nodes)
       /\ walk.mode = "clusters" =>
             \A sorted \in {SortByCountDesc(walk.clusters)} :
                (IF Len(IsolatedList(nodes, walk.reachable)) = 0 THEN <<>>
                 ELSE [i \in 1..Len(sorted) |->
                         [size |-> sorted[i].size, files |-> sorted[i].files]])
                  = findClusters(nodes, EntryPointPatterns)
       /\ walk.mode = "blast" =>
             \A r \in {calculateBlastRadius(nodes, target)} :
                IF "error" \in DOMAIN r THEN walk.k = 1 /\ walk.direct = <<>>
                ELSE /\ r.direct = SortStrings(walk.direct)
                     /\ r.transitive = SortStrings(walk.transitive)
                     /\ r.httpCallers = SortStrings(walk.httpCallers)
       /\ walk.mode = "build" =>
             \A run \in {RunUsedBy(docMetas, DefaultAliases)} :
                /\ walk.st.threw = run.threw
                /\ walk.st.linksCreated = run.linksCreated
                /\ ~run.threw => WriteBack(SortAllUsedBy(walk.st.docs)) = run.docs

\* a call frame is waiting on a node that is already on the call stack: the
\* traversal has come back to a node it is still working on
CameBackToAnOpenNode ==
  /\ walk.mode \in {"cycles", "clusters", "blast"}
  /\ Len(walk.stack) >= 2
  /\ Top(walk.stack).i = 0
  /\ Has(EnteredNodes(Below(walk.stack)), Top(walk.stack).node)

\* C27: cycle detection, cluster detection and blast radius each terminate on
\* every finite node map, also when uses or usedBy edges form cycles, name the
\* node itself or name paths that are not nodes; the build pass terminates as
\* well when references are circular.
C27_TraversalsTerminate == <>WalkDone

\* cycle detection has finished over a node map with a cycle in its uses edges
C27_FinishedOverACycle ==
  /\ walk.mode = "cycles" /\ walk.done
  /\ Len(walk.cycles) > 0
-----------------------------------------------------------------------------
(* Properties relating the MCP blast radius to the command line's          *)

\* C28: for every index and every target that is an indexed file, the paths
\* of the MCP dependents list are the command line's direct and transitive
\* dependents; the MCP list never holds the queried file itself, also when
\* usedBy edges form a cycle through it, and holds no path twice.
C28_McpAgreesWithTheCommandLine ==
  (op = "mcp" /\ target \in NodePaths(buildGraph(docMetas)))
    => /\ "file" \in DOMAIN blast
       /\ Range(resolution) = Range(blast.direct) \cup Range(blast.transitive)
       /\ target \notin Range(resolution)
       /\ \A i, j \in 1..Len(resolution) : i # j => resolution[i] # resolution[j]

\* the queried file is used by a file that it is itself used by, in records a
\* build has written, and the MCP list names the queried file
C28_McpListsTheQueriedFile ==
  /\ op = "mcp" /\ target \in NodePaths(buildGraph(docMetas))
  /\ docMetas[1].updated = Now
  /\ target \in Range(resolution)
  /\ target \notin Range(blast.direct) \cup Range(blast.transitive)
-----------------------------------------------------------------------------
(* Properties relating the entry-points mode to cluster detection          *)

\* C29: the paths the entry-points mode lists are exactly the nodes cluster
\* detection treats as entry points (pattern match, or empty usedBy with no
\* internal reference, or HTTP-called).
C29_ListedEntryPointsAreTheClusterEntryPoints ==
  op = "graph"
    => \A nodes \in {buildGraph(docMetas)} :
          Range(analysis.entryPoints) = Range(ClusterEntryPoints(nodes, EntryPointPatterns))

\* a node that matches an entry-point pattern and has an internal reference:
\* cluster detection starts from it, the entry-points mode does not list it
C29_PatternEntryNotListed ==
  /\ op = "graph"
  /\ \E p \in Range(ClusterEntryPoints(buildGraph(docMetas), EntryPointPatterns)) :
        /\ p \notin Range(analysis.entryPoints)
        /\ SomePatternTests(EntryPointPatterns, p)

\* a used node without internal references: listed by the entry-points mode,
\* not an entry point of cluster detection
C29_UsedLeafListed ==
  /\ op = "graph"
  /\ \E p \in Range(analysis.entryPoints) :
        /\ p \notin Range(ClusterEntryPoints(buildGraph(docMetas), EntryPointPatterns))
        /\ Len(NodeAt(buildGraph(docMetas), p).usedBy) > 0
-----------------------------------------------------------------------------
(* Properties of the index lookup when keys coincide                       *)

\* the canonical path reference ui of the file at p resolves to
ResolvedPath(docs, p, ui) ==
  resolveImportPath(docs[p[1]].files[p[2]].uses[ui], docs[p[1]].folderPath, DefaultAliases)

\* C30: a reference whose resolved path is exactly the canonical path of an
\* indexed node, extension included, adds the referencing node to that
\* node's usedBy and to no other node's, also when a node of the same folder
\* has the same name with another extension or an index file's folder path
\* is another file's path without its extension.
C30_ExactReferenceLandsOnItsNode ==
  (op = "usedby" /\ status = "ok")
    => \A p, q \in PositionsOf(docMetas) :
          \A uses \in {docMetas[p[1]].files[p[2]].uses} :
             (Len(uses) = 1 /\ ResolvedPath(docMetas, p, 1) = FilePath(docMetas, q[1], q[2]))
               => \A r \in PositionsOf(docMetas) :
                     Has(docMetas[r[1]].files[r[2]].usedBy, FilePath(docMetas, p[1], p[2]))
                       <=> r = q

\* b.js names a.js with its extension and is listed as a user of a.ts
C30_ListedOnTheOtherExtension ==
  /\ op = "usedby" /\ status = "ok"
  /\ Len(docMetas) = 1 /\ Len(docMetas[1].files) = 3
  /\ docMetas[1].files[3].uses = <<RefAJs>>
  /\ docMetas[1].files[1].usedBy = <<>>
  /\ docMetas[1].files[2].usedBy = <<PathB>>

\* b.js names lib.js with its extension and is listed as a user of lib/index.js
C30_ListedOnTheIndexFile ==
  /\ op = "usedby" /\ status = "ok"
  /\ Len(docMetas) = 2
  /\ docMetas[1].files[2].uses = <<RefLibJs>>
  /\ docMetas[1].files[1].usedBy = <<>>
  /\ docMetas[2].files[1].usedBy = <<PathB>>

====
